---- MODULE Spec2Model ----
(***************************************************************************)
(* A model of the chat gateway of backend_api: task classification,        *)
(* evidence retrieval and merging, the three provider adapters, the        *)
(* socket-to-generator bridge of the research adapter, and the SSE         *)
(* coordinator of /chat and /chat/stream.                                  *)
(*                                                                         *)
(* The module holds several specifications over one set of variables; each *)
(* specification drives one component and leaves the others idle:          *)
(*   SpecTone      GPTResearcherAdapter._normalize_tone                    *)
(*   SpecRefs      GPTResearcherAdapter._convert_report_response_to_...    *)
(*   SpecEvidence  _build_retrieval_messages, search_web, sources payload  *)
(*   Spec          chat() and chat_stream().generate()                     *)
(*   SpecBridge    GPTResearcherAdapter._stream_with_websocket_progress    *)
(***************************************************************************)
EXTENDS Integers, Sequences, FiniteSets, TLC

VARIABLES
    \* ---- _normalize_tone
    tone, toneOut, toneWarnings, tonePc,
    \* ---- _convert_report_response_to_openai_format
    refReport, refUrls, refVisited, refOut, refOut2, refPc,
    \* ---- the request and _build_retrieval_messages
    body_message, user_message, use_rag, use_web_search, ragOutcome, webOutcome,
    store,
    used_evidence, sources, ragCalled, webCalled, evPc,
    \* ---- chat() and chat_stream().generate()
    endpoint, task_type, pc, frames, ai_content, progress_queue,
    force_provider, use_gpt_researcher, use_deepanalyze,
    provider, callAt, nEvents, raised, framesAtRaise, swallowed, streamed,
    lastEvent, nContent, saved,
    response,
    \* ---- chat_completions_stream and _stream_with_websocket_progress
    bpc, now, timeout, last_progress_time, grace_until, final_content,
    ws_progress_queue, result_queue, error_queue, ws_thread, ws_puts, ws_pings,
    sink, yielded, sync_calls, terminal_at, exit_by, last_handed_at, hb_gap,
    result_at,
    \* ---- the re-chunking of a complete result, on its own
    rcText, rcOut, rcOutLegacy, rcPc,
    \* ---- detect_task_type, on its own
    dtMessage, dtResult, dtPc,
    \* ---- search_web and its caches, on their own
    _CACHE, dbRows, cnow, upstreamCalls, sw,
    \* ---- concurrent requests in search_web
    _CACHE_LOCK, tpc, treq, tres, tcalls,
    \* ---- one request sent to /chat and to /chat/stream
    eqMessage, eqTaskType, eqText, eqChat, eqStream,
    \* ---- GPTResearcherAdapter.chat_completions, on its own
    syUse, syReport, syChat, syPc, syCalls, syResult

toneVars == <<tone, toneOut, toneWarnings, tonePc>>
refVars == <<refReport, refUrls, refVisited, refOut, refOut2, refPc>>
reqVars == <<body_message, user_message, use_rag, use_web_search, ragOutcome,
             webOutcome, store>>
evVars == <<used_evidence, sources, ragCalled, webCalled, evPc>>
routeVars == <<force_provider, use_gpt_researcher, use_deepanalyze>>
genVars == <<endpoint, task_type, pc, frames, ai_content, progress_queue, routeVars,
             provider, callAt, nEvents, raised, framesAtRaise, swallowed, streamed,
             lastEvent, nContent,
             saved, response>>
bridgeVars == <<bpc, now, timeout, last_progress_time, grace_until, final_content,
                ws_progress_queue, result_queue, error_queue, ws_thread, ws_puts,
                ws_pings, sink, yielded, sync_calls, terminal_at, exit_by,
                last_handed_at, hb_gap, result_at>>
rcVars == <<rcText, rcOut, rcOutLegacy, rcPc>>
\* The components that are checked on their own.
dtVars == <<dtMessage, dtResult, dtPc>>
cacheVars == <<_CACHE, dbRows, cnow, upstreamCalls, sw>>
thrVars == <<_CACHE_LOCK, tpc, treq, tres, tcalls>>
eqVars == <<eqMessage, eqTaskType, eqText, eqChat, eqStream>>
syVars == <<syUse, syReport, syChat, syPc, syCalls, syResult>>
libVars == <<rcVars, dtVars, cacheVars, thrVars, eqVars, syVars>>
vars == <<toneVars, refVars, reqVars, evVars, genVars, bridgeVars, libVars>>

(***************************************************************************)
(* Generic helpers.                                                        *)
(***************************************************************************)
SeqsUpTo(S, n) == UNION {[1..k -> S] : k \in 0..n}
Range(seq) == {seq[i] : i \in 1..Len(seq)}

(***************************************************************************)
(* Tone normalisation.                                                     *)
(* A string of letters is its lower-case spelling (base) and the set of    *)
(* positions written in upper case (ups); lower() clears ups.              *)
(***************************************************************************)
CasePositions == 3

Str(base, ups) == [base |-> base, ups |-> ups]

ToneAliases ==
    {"informative", "objective", "formal", "analytical", "persuasive",
     "explanatory", "descriptive", "critical", "comparative", "speculative",
     "reflective", "narrative", "humorous", "optimistic", "pessimistic",
     "simple", "casual"}

\* Inputs that are no alias: an unknown word, a near miss, the empty string.
ToneOthers == {"unknown", "informal", ""}

ToneInputs ==
    {Str(b, u) : b \in ToneAliases \cup (ToneOthers \ {""}),
                 u \in SUBSET (1..CasePositions)}
    \cup {Str("", {})}

\* str.lower()
lower(s) == Str(s.base, {})

\* tone_map: lower-case alias -> enum name (the alias with a capital initial)
tone_map_keys == {Str(b, {}) : b \in ToneAliases}
tone_map(k) == Str(k.base, {1})
tone_map_values == {tone_map(k) : k \in tone_map_keys}

Informative == Str("informative", {1})

\* A plausible slip: the lookup without lower().
NormalizeToneNoLower(t) ==
    IF t \in tone_map_values THEN [ret |-> t, warned |-> 0]
    ELSE IF t \in tone_map_keys THEN [ret |-> tone_map(t), warned |-> 0]
    ELSE [ret |-> Informative, warned |-> 1]

\* _normalize_tone: the value returned and the number of warnings logged.
_normalize_tone(t) ==
    IF t \in tone_map_values THEN [ret |-> t, warned |-> 0]
    ELSE LET tone_lower == lower(t) IN
         IF tone_lower \in tone_map_keys
         THEN [ret |-> tone_map(tone_lower), warned |-> 0]
         ELSE [ret |-> Informative, warned |-> 1]

ToneInit ==
    /\ tone \in ToneInputs
    /\ toneOut = Str("", {})
    /\ toneWarnings = 0
    /\ tonePc = "call"

ToneIdle ==
    /\ tone = Str("", {})
    /\ toneOut = Str("", {})
    /\ toneWarnings = 0
    /\ tonePc = "idle"

NormalizeTone ==
    /\ tonePc = "call"
    /\ LET r == _normalize_tone(tone) IN
         /\ toneOut' = r.ret
         /\ toneWarnings' = toneWarnings + r.warned
    /\ tonePc' = "returned"
    /\ UNCHANGED <<tone, refVars, reqVars, evVars, genVars, bridgeVars, libVars>>

(***************************************************************************)
(* Reference synthesis of the report endpoint's answer.                    *)
(* A report is a sequence of tokens: plain text, white space, the words    *)
(* "参考文献" (refword), the heading "## 参考文献" (h2ref), a line break,  *)
(* and a numbered entry "[n] url".                                         *)
(***************************************************************************)
MaxReportLen == 2
MaxUrls == 3

Tok(k) == [k |-> k, n |-> 0, u |-> ""]
Entry(n, u) == [k |-> "entry", n |-> n, u |-> u]

ReportTokens == {Tok("txt"), Tok("ws"), Tok("refword")}
\* "" stands for an empty or missing (None) url, which Python treats as false.
UrlValues == {"a", "b", ""}

\* "参考文献" in report_content ("## 参考文献" contains it)
HasReferences(content) ==
    \E i \in 1..Len(content) : content[i].k \in {"refword", "h2ref"}

IsSpace(t) == t.k \in {"ws", "nl"}

RECURSIVE rstrip(_)
rstrip(s) ==
    IF s = <<>> THEN <<>>
    ELSE IF IsSpace(s[Len(s)]) THEN rstrip(SubSeq(s, 1, Len(s) - 1))
    ELSE s

\* for url in urls: if url and url not in seen_urls: append "[n] url"
RECURSIVE CollectReferences(_, _)
CollectReferences(urls, references) ==
    IF urls = <<>> THEN references
    ELSE LET url == Head(urls)
             seen_urls == {references[i].u : i \in 1..Len(references)}
         IN CollectReferences(Tail(urls),
                IF url # "" /\ url \notin seen_urls
                THEN Append(references, Entry(Len(references) + 1, url))
                ELSE references)

\* "\n".join(references)
RECURSIVE JoinLines(_)
JoinLines(refs) ==
    IF refs = <<>> THEN <<>>
    ELSE IF Len(refs) = 1 THEN refs
    ELSE <<Head(refs), Tok("nl")>> \o JoinLines(Tail(refs))

ReferencesHeading == <<Tok("nl"), Tok("nl"), Tok("h2ref"), Tok("nl"), Tok("nl")>>

\* A plausible slip: the block is appended without looking for an existing one.
ConvertReportAlwaysAppend(report_content, source_urls, visited_urls) ==
    IF source_urls # <<>>
    THEN LET references == CollectReferences(source_urls, <<>>) IN
         IF references # <<>>
         THEN rstrip(report_content) \o ReferencesHeading \o JoinLines(references)
         ELSE report_content
    ELSE report_content

\* _convert_report_response_to_openai_format: the content of the message built.
_convert_report_response_to_openai_format(report_content, source_urls, visited_urls) ==
    IF source_urls # <<>> /\ ~HasReferences(report_content)
    THEN LET fromSources == CollectReferences(source_urls, <<>>)
             references ==
                 IF fromSources = <<>> /\ visited_urls # <<>>
                 THEN CollectReferences(visited_urls, <<>>)
                 ELSE fromSources
         IN IF references # <<>>
            THEN rstrip(report_content) \o ReferencesHeading \o JoinLines(references)
            ELSE report_content
    ELSE report_content

RefsInit ==
    /\ refReport \in SeqsUpTo(ReportTokens, MaxReportLen)
    /\ refUrls \in SeqsUpTo(UrlValues, MaxUrls)
    /\ refVisited \in {<<>>, <<"c">>}
    /\ refOut = <<>>
    /\ refOut2 = <<>>
    /\ refPc = "call"

RefsIdle ==
    /\ refReport = <<>>
    /\ refUrls = <<>>
    /\ refVisited = <<>>
    /\ refOut = <<>>
    /\ refOut2 = <<>>
    /\ refPc = "idle"

\* The report endpoint's answer is converted.
ConvertReport ==
    /\ refPc = "call"
    /\ refOut' = _convert_report_response_to_openai_format(refReport, refUrls, refVisited)
    /\ refPc' = "once"
    /\ UNCHANGED <<refReport, refUrls, refVisited, refOut2, toneVars, reqVars, evVars, genVars, bridgeVars, libVars>>

\* The converted report is fed back in with the same url lists.
ConvertReportAgain ==
    /\ refPc = "once"
    /\ refOut2' = _convert_report_response_to_openai_format(refOut, refUrls, refVisited)
    /\ refPc' = "twice"
    /\ UNCHANGED <<refReport, refUrls, refVisited, refOut, toneVars, reqVars, evVars, genVars, bridgeVars, libVars>>

(***************************************************************************)
(* Messages.  A message is a sequence of words; a keyword is a sequence of *)
(* words too, and `keyword in text` is contiguous containment.             *)
(***************************************************************************)
Contains(text, pattern) ==
    \E i \in 0..(Len(text) - Len(pattern)) :
        \A j \in 1..Len(pattern) : text[i + j] = pattern[j]

\* _contains_keyword
_contains_keyword(text, keywords) ==
    text # <<>> /\ \E keyword \in keywords : Contains(text, keyword)

\* Chinese words are written in pinyin: xinwen 新闻, shijian 事件, fabu 发布,
\* gonggao 公告, dongtai 动态, fasheng 发生, zuijin 最近, zuixin 最新,
\* youneixie 有哪些, bianhua 变化, gengxin 更新, zhengce 政策, jinzhan 进展,
\* yanjiu 研究, baodao 报道, hangye 行业, nihao 你好.
RAG_KEYWORDS ==
    {<<"xinwen">>, <<"shijian">>, <<"fabu">>, <<"gonggao">>, <<"dongtai">>,
     <<"fasheng">>, <<"zuijin">>, <<"zuixin">>, <<"youneixie">>, <<"bianhua">>,
     <<"gengxin">>}

WEB_SEARCH_KEYWORDS ==
    {<<"zuixin">>, <<"zuijin">>, <<"xinwen">>, <<"zhengce">>, <<"fabu">>,
     <<"jinzhan">>, <<"yanjiu">>, <<"baodao">>, <<"gonggao">>, <<"hangye">>}

USE_WEB_SEARCH == TRUE

(***************************************************************************)
(* Task classification.                                                    *)
(* More pinyin: yixia 一下, diaoyan 调研, diaocha 调查, baogao 报告,       *)
(* fenxi 分析, shuju 数据, biaoge 表格, tubiao 图表, keshihua 可视化,      *)
(* chuli 处理, tongji 统计, jisuan 计算, wajue 挖掘, kexue 科学,           *)
(* tansuo 探索, bangwo 帮我, qing 请, keyi 可以, neng 能.                  *)
(***************************************************************************)
\* str.lower() of one word: the words of the model written with capitals.
LowerWord(w) ==
    CASE w = "RESEARCH" -> "research"
      [] w = "Data" -> "data"
      [] w = "Analyze" -> "analyze"
      [] OTHER -> w

LowerText(text) == [i \in 1..Len(text) |-> LowerWord(text[i])]

research_patterns ==
    {<<"yanjiu", "yixia">>, <<"yanjiu">>, <<"diaoyan">>, <<"diaocha", "baogao">>,
     <<"fenxi", "baogao">>, <<"yanjiu", "baogao">>, <<"research">>,
     <<"investigate">>, <<"study">>, <<"analysis", "report">>}

analysis_words == {<<"fenxi">>, <<"analyze">>}

analysis_data_terms ==
    {<<"shuju">>, <<"data">>, <<"biaoge">>, <<"table">>, <<"csv">>, <<"excel">>}

chat_scene_words ==
    {<<"bangwo">>, <<"qing">>, <<"keyi">>, <<"neng">>, <<"help">>, <<"please">>,
     <<"can">>}

data_keywords ==
    {<<"shuju">>, <<"biaoge">>, <<"tubiao">>, <<"keshihua">>, <<"csv">>, <<"excel">>,
     <<"shuju", "fenxi">>, <<"shuju", "chuli">>, <<"shuju", "tongji">>,
     <<"shuju", "jisuan">>, <<"shuju", "wajue">>, <<"shuju", "kexue">>,
     <<"shuju", "tansuo">>, <<"data">>, <<"table">>, <<"chart">>,
     <<"visualization">>, <<"analyze", "data">>, <<"data", "analysis">>,
     <<"data", "processing">>, <<"data", "science">>, <<"data", "exploration">>,
     <<"statistics">>, <<"statistical">>}

ContainsAny(text, patterns) == \E pattern \in patterns : Contains(text, pattern)

\* A plausible slip: inside the analysis branch the chat-scene exclusion and
\* the research result come before the dataset/table terms.
DetectTaskTypeAnalysisResearchFirst(message) ==
    LET message_lower == LowerText(message) IN
    IF ContainsAny(message_lower, research_patterns) THEN "research"
    ELSE IF ContainsAny(message_lower, analysis_words)
              /\ ~ContainsAny(message_lower, chat_scene_words) THEN "research"
    ELSE IF ContainsAny(message_lower, analysis_words)
              /\ ContainsAny(message_lower, analysis_data_terms) THEN "data"
    ELSE IF ContainsAny(message_lower, data_keywords) THEN "data"
    ELSE "chat"

\* A plausible slip: the data keywords are tried before the research phrases.
DetectTaskTypeDataFirst(message) ==
    LET message_lower == LowerText(message) IN
    IF ContainsAny(message_lower, data_keywords) THEN "data"
    ELSE IF ContainsAny(message_lower, research_patterns) THEN "research"
    ELSE "chat"

detect_task_type(message) ==
    LET message_lower == LowerText(message) IN
    IF ContainsAny(message_lower, research_patterns) THEN "research"
    ELSE IF ContainsAny(message_lower, analysis_words)
              /\ ContainsAny(message_lower, analysis_data_terms) THEN "data"
    ELSE IF ContainsAny(message_lower, analysis_words)
              /\ ~ContainsAny(message_lower, chat_scene_words) THEN "research"
    ELSE IF ContainsAny(message_lower, data_keywords) THEN "data"
    ELSE "chat"

(***************************************************************************)
(* Provider selection.                                                     *)
(***************************************************************************)
AUTO_ROUTE_TASKS == TRUE
USE_GPT_RESEARCHER == TRUE
USE_DEEPANALYZE == TRUE

TaskTypes == {"research", "data", "chat", "auto"}

\* force_provider as chat() and generate() set it from the request's task_type
ForceProviderOf(tt) ==
    CASE tt = "research" -> "gpt-researcher"
      [] tt = "data" -> "deepanalyze"
      [] tt = "chat" -> "qwen"
      [] OTHER -> "None"

\* _call_llm_api: the service whose client is called.
_call_llm_api(message, force) ==
    IF force = "gpt-researcher" THEN "gpt-researcher"
    ELSE IF force = "deepanalyze" THEN "deepanalyze"
    ELSE IF AUTO_ROUTE_TASKS /\ (USE_GPT_RESEARCHER \/ USE_DEEPANALYZE) /\ message # <<>>
    THEN LET detected == detect_task_type(message) IN
         IF detected = "research" /\ USE_GPT_RESEARCHER THEN "gpt-researcher"
         ELSE IF detected = "data" /\ USE_DEEPANALYZE THEN "deepanalyze"
         ELSE "default"
    ELSE "default"

\* generate(): use_gpt_researcher, use_deepanalyze and force_provider
StreamRoute(message, tt) ==
    LET auto == /\ tt \notin {"research", "data", "chat"}
                /\ AUTO_ROUTE_TASKS /\ (USE_GPT_RESEARCHER \/ USE_DEEPANALYZE)
                /\ message # <<>>
        detected == detect_task_type(message)
    IN [use_gpt_researcher |->
            tt = "research" \/ (auto /\ detected = "research" /\ USE_GPT_RESEARCHER),
        use_deepanalyze |->
            tt = "data" \/ (auto /\ detected # "research" /\ detected = "data"
                                 /\ USE_DEEPANALYZE),
        force_provider |-> ForceProviderOf(tt)]

(***************************************************************************)
(* Evidence retrieval and merging.                                         *)
(* An item is its title and url; "" stands for a missing or empty value.   *)
(***************************************************************************)
MaxRag == 2
MaxWeb == 2

Item(title, url) == [title |-> title, url |-> url]
ItemPool == {Item("t1", "u1"), Item("t2", "u1"), Item("t1", ""), Item("", "")}

\* What a collaborator does when called: it returns results or raises.
Returns(results) == [kind |-> "ok", results |-> results]
Raises == [kind |-> "raise", results |-> <<>>]

\* key = item.get("url") or item.get("title")
DedupKey(item) == IF item.url # "" THEN item.url ELSE item.title

\* web_search._dedupe_results
RECURSIVE DedupeFrom(_, _, _)
DedupeFrom(results, seen, deduped) ==
    IF results = <<>> THEN deduped
    ELSE LET item == Head(results)
             key == DedupKey(item)
         IN IF key = "" \/ key \in seen
            THEN DedupeFrom(Tail(results), seen, deduped)
            ELSE DedupeFrom(Tail(results), seen \cup {key}, Append(deduped, item))

_dedupe_results(results) == DedupeFrom(results, {}, <<>>)

\* search_web on a cache miss: the upstream results that have a url and a
\* title (WEB_SEARCH_MIN_SCORE is 0.0: no score filter), de-duplicated.
search_web(raw_results) ==
    _dedupe_results(
        SelectSeq(raw_results, LAMBDA item : item.url # "" /\ item.title # ""))

Tagged(item, origin) == [title |-> item.title, url |-> item.url, origin |-> origin]

TagAll(results, origin) == [i \in 1..Len(results) |-> Tagged(results[i], origin)]

\* _build_sources_payload: one group per origin, each de-duplicated on its own.
RECURSIVE GroupFrom(_, _, _, _)
GroupFrom(evidence, origin, seen, group) ==
    IF evidence = <<>> THEN group
    ELSE LET item == Head(evidence)
             key == DedupKey(item)
         IN IF item.origin # origin \/ (item.title = "" /\ item.url = "") \/ key \in seen
            THEN GroupFrom(Tail(evidence), origin, seen, group)
            ELSE GroupFrom(Tail(evidence), origin, seen \cup {key},
                     Append(group,
                         [title |-> IF item.title # "" THEN item.title ELSE item.url,
                          url |-> item.url, origin |-> origin]))

_build_sources_payload(evidence) ==
    [database |-> GroupFrom(evidence, "rag", {}, <<>>),
     internet |-> GroupFrom(evidence, "web", {}, <<>>)]

\* A plausible slip: the handler of the web search's exception also resets
\* the local results.
BuildRetrievalWebFailureDropsAll(message, rag_flag, web_flag, rag, web) ==
    LET rag_triggered == rag_flag \/ _contains_keyword(message, RAG_KEYWORDS)
        web_triggered == web_flag \/ _contains_keyword(message, WEB_SEARCH_KEYWORDS)
        combined_triggered == rag_triggered \/ web_triggered
        rag_called == combined_triggered
        web_called == combined_triggered /\ USE_WEB_SEARCH
        web_failed == web_called /\ web.kind # "ok"
        rag_results == IF rag_called /\ rag.kind = "ok" /\ ~web_failed
                       THEN rag.results ELSE <<>>
        web_results == IF web_called /\ web.kind = "ok"
                       THEN search_web(web.results) ELSE <<>>
        evidence == TagAll(rag_results, "rag") \o TagAll(web_results, "web")
    IN [used_evidence |-> evidence,
        sources |-> _build_sources_payload(evidence),
        rag_called |-> rag_called,
        web_called |-> web_called,
        rag_results |-> rag_results,
        web_results |-> web_results]

\* _build_retrieval_messages: the collaborators called, the evidence list and
\* the sources payload (the prompt messages are not modelled).
_build_retrieval_messages(message, rag_flag, web_flag, rag, web) ==
    LET rag_triggered == rag_flag \/ _contains_keyword(message, RAG_KEYWORDS)
        web_triggered == web_flag \/ _contains_keyword(message, WEB_SEARCH_KEYWORDS)
        combined_triggered == rag_triggered \/ web_triggered
        rag_called == combined_triggered
        web_called == combined_triggered /\ USE_WEB_SEARCH
        rag_results == IF rag_called /\ rag.kind = "ok" THEN rag.results ELSE <<>>
        web_results == IF web_called /\ web.kind = "ok"
                       THEN search_web(web.results) ELSE <<>>
        evidence == TagAll(rag_results, "rag") \o TagAll(web_results, "web")
    IN [used_evidence |-> evidence,
        sources |-> _build_sources_payload(evidence),
        rag_called |-> rag_called,
        web_called |-> web_called,
        rag_results |-> rag_results,
        web_results |-> web_results]

NoSources == [database |-> <<>>, internet |-> <<>>]

RetrievalMessages == {<<"nihao">>, <<"shijian">>, <<"zhengce">>, <<"xinwen">>}

ReqIdle ==
    /\ body_message = <<>>
    /\ user_message = <<>>
    /\ use_rag = FALSE
    /\ use_web_search = FALSE
    /\ ragOutcome = Raises
    /\ webOutcome = Raises
    /\ store = "ok"

EvIdle ==
    /\ used_evidence = <<>>
    /\ sources = NoSources
    /\ ragCalled = FALSE
    /\ webCalled = FALSE
    /\ evPc = "idle"

EvidenceInit ==
    /\ user_message \in RetrievalMessages
    /\ body_message = user_message
    /\ store = "ok"
    /\ use_rag \in BOOLEAN
    /\ use_web_search \in BOOLEAN
    /\ ragOutcome \in {Raises} \cup {Returns(r) : r \in SeqsUpTo(ItemPool, MaxRag)}
    /\ webOutcome \in {Raises} \cup {Returns(r) : r \in SeqsUpTo(ItemPool, MaxWeb)}
    /\ used_evidence = <<>>
    /\ sources = NoSources
    /\ ragCalled = FALSE
    /\ webCalled = FALSE
    /\ evPc = "call"

\* One call of _build_retrieval_messages.
BuildRetrieval ==
    /\ evPc = "call"
    /\ LET r == _build_retrieval_messages(user_message, use_rag, use_web_search,
                                          ragOutcome, webOutcome) IN
         /\ used_evidence' = r.used_evidence
         /\ sources' = r.sources
         /\ ragCalled' = r.rag_called
         /\ webCalled' = r.web_called
    /\ evPc' = "built"
    /\ UNCHANGED <<toneVars, refVars, reqVars, genVars, bridgeVars, libVars>>

(***************************************************************************)
(* The SSE coordinator: chat() and chat_stream().generate().               *)
(***************************************************************************)
MaxEvents == 3

Frame(type, content) == [type |-> type, content |-> content, items |-> <<>>]
StartFrame == Frame("start", "")
DoneFrame == Frame("done", "")
EvidenceFrame(items) == [type |-> "evidence", content |-> "", items |-> items]
ChunkFrame(content) == Frame("chunk", content)
ProgressFrame(progress) == Frame("progress", progress)
ErrorFrame(message) == Frame("error", message)

DefaultReply == "default_msg"

\* One line of the General provider's response body.
\*   k: empty (b""), blank, comment (":..."), sentinel, json, text (no JSON),
\*      badbytes (not UTF-8)
\*   pfx: "" | "data: " | "data:"
\*   shape (json): where the delta sits ("scalar": the JSON value is no
\*      object); content: the delta (or the sentinel's
\*      spelling, "DONE" or "done")
Line(k, pfx, shape, content) ==
    [k |-> k, pfx |-> pfx, shape |-> shape, content |-> content]

ContentShapes ==
    {"choices_delta", "output_choices_delta", "output_choices_message",
     "output_choices_text", "output_text", "text"}

\* The body of generate()'s for-loop: what one line makes the loop do.
\*   skip     `continue` before the try (empty, blank or comment line), or a
\*            parsed line without content
\*   raise    line.decode raises: the exception leaves the loop
\*   break    the end sentinel
\*   swallow  json.loads or the shape lookup raises inside the try: the
\*            per-line handlers print and `continue`
\*   emit     a chunk frame
ParseLine(line) ==
    CASE line.k = "empty" -> [act |-> "skip", content |-> ""]
      [] line.k = "badbytes" -> [act |-> "raise", content |-> ""]
      [] line.k \in {"blank", "comment"} -> [act |-> "skip", content |-> ""]
      [] line.k = "sentinel" ->
            IF line.content = "DONE" /\ line.pfx \in {"", "data: ", "data:"}
            THEN [act |-> "break", content |-> ""]
            ELSE [act |-> "swallow", content |-> ""]
      [] line.k = "json" ->
            IF line.pfx = "data:" \/ line.shape = "scalar"
            THEN [act |-> "swallow", content |-> ""]
            ELSE IF line.shape \in ContentShapes /\ line.content # ""
            THEN [act |-> "emit", content |-> line.content]
            ELSE [act |-> "skip", content |-> ""]
      [] OTHER -> [act |-> "swallow", content |-> ""]

\* The delta one line of the provider carries: the content of a JSON line in
\* one of the shapes, whatever its prefix.
DeltaOf(line) ==
    IF line.k = "json" /\ line.shape \in ContentShapes THEN line.content ELSE ""

\* The lines the coordinator is run on.
StreamLines ==
    {Line("json", "data: ", "choices_delta", "a"),
     Line("json", "data: ", "choices_delta", ""),
     Line("json", "", "output_text", "b"),
     Line("json", "data: ", "text", "c"),
     Line("comment", "", "", ""),
     Line("sentinel", "data: ", "", "DONE"),
     Line("sentinel", "data:", "", "DONE"),
     Line("sentinel", "data: ", "", "done"),
     Line("text", "", "", ""),
     Line("json", "data: ", "scalar", ""),
     Line("badbytes", "", "", "")}

\* The "message" field of the request body; " " is white space and <<>> the
\* empty or missing field.
StreamMessages ==
    {<<>>, <<" ">>, <<" ", "nihao", " ">>, <<"nihao">>, <<"yanjiu">>, <<"shuju">>,
     <<"RESEARCH">>, <<"yanjiu", "shuju">>, <<"fenxi">>}

\* str.strip()
RECURSIVE lstrip(_)
lstrip(text) ==
    IF text # <<>> /\ Head(text) = " " THEN lstrip(Tail(text)) ELSE text

RECURSIVE rstrip_text(_)
rstrip_text(text) ==
    IF text # <<>> /\ text[Len(text)] = " "
    THEN rstrip_text(SubSeq(text, 1, Len(text) - 1))
    ELSE text

\* A plausible slip: the message is not trimmed.
StripNothing(text) == text

strip(text) == rstrip_text(lstrip(text))

GenIdle ==
    /\ endpoint = "none"
    /\ task_type = "auto"
    /\ pc = "idle"
    /\ frames = <<>>
    /\ ai_content = <<>>
    /\ progress_queue = <<>>
    /\ force_provider = "None"
    /\ use_gpt_researcher = FALSE
    /\ use_deepanalyze = FALSE
    /\ provider = "none"
    /\ callAt = -1
    /\ nEvents = 0
    /\ raised = FALSE
    /\ framesAtRaise = <<>>
    /\ swallowed = FALSE
    /\ lastEvent = "none"
    /\ nContent = 0
    /\ streamed = <<>>
    /\ saved = <<>>
    /\ response = [code |-> 0, content |-> <<>>]

Saved(role, content) == [role |-> role, content |-> content]

\* The history store of one request: it works, its calls throw, or there is
\* no client (_supabase is None).
StoreStates == {"ok", "throws", "absent"}

\* A plausible slip: the exception of the insert is not caught.
SaveMessageSurfaces(st, log, role, content) ==
    [saved |-> IF st = "ok" THEN Append(log, Saved(role, content)) ELSE log,
     raises |-> st = "throws"]

\* _save_message: the messages stored afterwards, and whether the call raises.
_save_message(st, log, role, content) ==
    [saved |-> IF st = "ok" THEN Append(log, Saved(role, content)) ELSE log,
     raises |-> FALSE]

\* _create_or_update_session: whether the call raises.
_create_or_update_session(st) == [raises |-> FALSE]

StreamInit ==
    /\ endpoint \in {"chat", "stream"}
    /\ task_type \in TaskTypes
    /\ body_message \in StreamMessages
    /\ store \in StoreStates
    /\ user_message = <<>>
    /\ use_rag \in BOOLEAN
    /\ use_web_search = FALSE
    /\ ragOutcome \in {Raises, Returns(<<>>), Returns(<<Item("t1", "u1")>>)}
    /\ webOutcome \in {Raises, Returns(<<Item("t2", "u1")>>)}
    /\ used_evidence = <<>>
    /\ sources = NoSources
    /\ ragCalled = FALSE
    /\ webCalled = FALSE
    /\ evPc = "idle"
    /\ pc = "request"
    /\ frames = <<>>
    /\ ai_content = <<>>
    /\ progress_queue = <<>>
    /\ force_provider = "None"
    /\ use_gpt_researcher = FALSE
    /\ use_deepanalyze = FALSE
    /\ provider = "none"
    /\ callAt = -1
    /\ nEvents = 0
    /\ raised = FALSE
    /\ framesAtRaise = <<>>
    /\ swallowed = FALSE
    /\ lastEvent = "none"
    /\ nContent = 0
    /\ streamed = <<>>
    /\ saved = <<>>
    /\ response = [code |-> 0, content |-> <<>>]

\* chat() / chat_stream() up to the provider: validation, retrieval, the
\* session and the user message are stored.
HandleRequest ==
    /\ pc = "request"
    /\ user_message' = strip(body_message)
    /\ IF user_message' = <<>>
       THEN /\ response' = [code |-> 400, content |-> <<>>]
            /\ pc' = "rejected"
            /\ UNCHANGED <<evVars, saved, raised>>
       ELSE /\ LET r == _build_retrieval_messages(user_message', use_rag,
                            use_web_search, ragOutcome, webOutcome) IN
                 /\ used_evidence' = r.used_evidence
                 /\ sources' = r.sources
                 /\ ragCalled' = r.rag_called
                 /\ webCalled' = r.web_called
            /\ LET session == _create_or_update_session(store)
                   w == _save_message(store, saved, "user", user_message')
               IN IF session.raises \/ w.raises
                  THEN /\ response' = [code |-> 500, content |-> <<>>]
                       /\ raised' = TRUE
                       /\ pc' = "failed"
                       /\ UNCHANGED saved
                  ELSE /\ saved' = w.saved
                       /\ pc' = IF endpoint = "chat" THEN "chat_call" ELSE "gen_start"
                       /\ UNCHANGED <<response, raised>>
            /\ UNCHANGED evPc
    /\ UNCHANGED <<bridgeVars, libVars, swallowed, streamed, lastEvent, nContent, toneVars, refVars, body_message,
                   use_rag, use_web_search, ragOutcome, webOutcome, store, endpoint,
                   task_type, frames, ai_content, progress_queue, routeVars,
                   provider, callAt, nEvents, framesAtRaise>>

\* chat(): the provider is chosen and called once; its answer (or the default
\* reply when it is empty) is stored and returned, an exception becomes a 500.
Chat ==
    /\ pc = "chat_call"
    /\ force_provider' = ForceProviderOf(task_type)
    /\ provider' = _call_llm_api(user_message, force_provider')
    /\ callAt' = 0
    /\ \E outcome \in {"content", "empty", "raise"} :
         IF outcome = "raise"
         THEN /\ response' = [code |-> 500, content |-> <<>>]
              /\ raised' = TRUE
              /\ UNCHANGED <<ai_content, saved>>
         ELSE /\ ai_content' = IF outcome = "content" THEN <<"a">> ELSE <<DefaultReply>>
              /\ LET w == _save_message(store, saved, "assistant", ai_content')
                     session == _create_or_update_session(store)
                 IN IF w.raises \/ session.raises
                    THEN /\ response' = [code |-> 500, content |-> <<>>]
                         /\ raised' = TRUE
                         /\ UNCHANGED saved
                    ELSE /\ saved' = w.saved
                         /\ response' = [code |-> 200, content |-> ai_content']
                         /\ UNCHANGED raised
    /\ pc' = "responded"
    /\ UNCHANGED <<bridgeVars, libVars, swallowed, streamed, lastEvent, nContent, toneVars, refVars, reqVars, evVars, endpoint, task_type, frames,
                   progress_queue, use_gpt_researcher, use_deepanalyze, nEvents,
                   framesAtRaise>>

\* A plausible slip: the provider is called while routing, before the start
\* frame is yielded.
GenStartCallsFirst ==
    /\ pc = "gen_start"
    /\ LET r == StreamRoute(user_message, task_type) IN
         /\ use_gpt_researcher' = r.use_gpt_researcher
         /\ use_deepanalyze' = r.use_deepanalyze
         /\ force_provider' = r.force_provider
    /\ callAt' = Len(frames)
    /\ frames' = Append(frames, StartFrame)
    /\ pc' = "gen_evidence"
    /\ UNCHANGED <<bridgeVars, libVars, swallowed, streamed, lastEvent, nContent, toneVars, refVars, reqVars,
                   evVars, endpoint, task_type, ai_content, progress_queue, provider,
                   nEvents, raised, framesAtRaise, saved, response>>

\* generate() up to its first yield: the routing, then the start frame.
GenStart ==
    /\ pc = "gen_start"
    /\ LET r == StreamRoute(user_message, task_type) IN
         /\ use_gpt_researcher' = r.use_gpt_researcher
         /\ use_deepanalyze' = r.use_deepanalyze
         /\ force_provider' = r.force_provider
    /\ frames' = Append(frames, StartFrame)
    /\ pc' = "gen_evidence"
    /\ UNCHANGED <<bridgeVars, libVars, swallowed, streamed, lastEvent, nContent, toneVars, refVars, reqVars, evVars, endpoint, task_type,
                   ai_content, progress_queue, provider, callAt, nEvents, raised,
                   framesAtRaise, saved, response>>

\* A plausible slip: the provider is called first and the evidence frame is
\* yielded afterwards.
GenEvidenceAfterCall ==
    /\ pc = "gen_evidence"
    /\ callAt' = Len(frames)
    /\ frames' = Append(frames, EvidenceFrame(used_evidence))
    /\ pc' = "gen_provider"
    /\ UNCHANGED <<bridgeVars, libVars, swallowed, streamed, lastEvent, nContent, toneVars, refVars, reqVars, evVars, endpoint, task_type,
                   ai_content, progress_queue, routeVars, provider, nEvents,
                   raised, framesAtRaise, saved, response>>

\* The evidence frame: used_evidence is a list, so one of the two branches
\* (non-empty, or == []) yields it.
GenEvidence ==
    /\ pc = "gen_evidence"
    /\ frames' = Append(frames, EvidenceFrame(used_evidence))
    /\ pc' = "gen_provider"
    /\ UNCHANGED <<bridgeVars, libVars, swallowed, streamed, lastEvent, nContent, toneVars, refVars, reqVars, evVars, endpoint, task_type,
                   ai_content, progress_queue, routeVars, provider, callAt, nEvents,
                   raised, framesAtRaise, saved, response>>

\* A plausible slip: the handler lets the exception go.
ExceptHandlerReraises(fr) == [frames |-> fr, pc |-> "escaped"]

\* generate()'s `except Exception`: one error frame, and the generator ends.
ExceptHandler(fr) == [frames |-> Append(fr, ErrorFrame("stream_error")), pc |-> "closed"]

\* An exception reaches generate()'s handler with frames fr already sent.
Raise(fr) ==
    /\ raised' = TRUE
    /\ framesAtRaise' = fr
    /\ frames' = ExceptHandler(fr).frames
    /\ pc' = ExceptHandler(fr).pc

\* while progress_queue: yield progress_queue.pop(0)
ProgressFrames(queue) == [i \in 1..Len(queue) |-> ProgressFrame(queue[i])]

\* The first call into a provider adapter is noted.
NoteCall(p) ==
    /\ provider' = IF provider = "none" THEN p ELSE provider
    /\ callAt' = IF callAt < 0 THEN Len(frames) ELSE callAt

\* What a provider event is for the coordinator: one with content, one whose
\* delta is empty or missing (dropped), or the end or an exception (other).
EventKind(ev) ==
    CASE ev \in {"empty_delta", "no_choices"} -> "dropped"
      [] ev = "content" -> "content"
      [] OTHER -> "other"

\* The same for one line of the General provider: the end sentinel in either
\* spelling, a line with content, a line that cannot be decoded, or a line
\* the loop passes over (dropped).
LineKind(line) ==
    CASE line.k = "sentinel" -> "sentinel"
      [] ParseLine(line).act = "emit" -> "content"
      [] ParseLine(line).act = "raise" -> "unreadable"
      [] OTHER -> "dropped"

\* One pull of the research adapter's generator.  Inside the pull the adapter
\* may hand progress items to progress_callback; it then yields a chunk
\* (a delta with content, or an empty delta), raises, or ends.
ResearchNext ==
    /\ pc = "gen_provider"
    /\ use_gpt_researcher
    /\ NoteCall("gpt-researcher")
    /\ \E handed \in {<<>>, <<"p">>},
          ev \in {"empty_delta", "content", "raise", "end"} :
         LET queue == progress_queue \o handed IN
         /\ lastEvent' = EventKind(ev)
         /\ nContent' = IF ev = "content" THEN nContent + 1 ELSE nContent
         /\ CASE ev = "raise" ->
                   /\ Raise(frames)
                   /\ progress_queue' = queue
                   /\ UNCHANGED <<ai_content, nEvents>>
              [] ev = "end" ->
                   /\ frames' = frames \o ProgressFrames(queue)
                   /\ progress_queue' = <<>>
                   /\ pc' = "gen_done"
                   /\ UNCHANGED <<ai_content, nEvents, raised, framesAtRaise>>
              [] OTHER ->
                   /\ nEvents < MaxEvents
                   /\ nEvents' = nEvents + 1
                   /\ progress_queue' = <<>>
                   /\ IF ev = "content"
                      THEN /\ ai_content' = Append(ai_content, "a")
                           /\ frames' = frames \o ProgressFrames(queue)
                                           \o <<ChunkFrame("a")>>
                      ELSE /\ frames' = frames \o ProgressFrames(queue)
                           /\ UNCHANGED ai_content
                   /\ UNCHANGED <<pc, raised, framesAtRaise>>
    /\ UNCHANGED <<bridgeVars, libVars, swallowed, streamed, toneVars, refVars, reqVars, evVars, endpoint, task_type,
                   routeVars, saved, response>>

\* One pull of the data-analysis adapter's generator: a chunk with a delta
\* (possibly empty), a chunk without choices (choices[0] raises IndexError),
\* an exception of the adapter, or the end.
DeepanalyzeNext ==
    /\ pc = "gen_provider"
    /\ ~use_gpt_researcher /\ use_deepanalyze
    /\ NoteCall("deepanalyze")
    /\ \E ev \in {"empty_delta", "content", "no_choices", "raise", "end"} :
         /\ lastEvent' = EventKind(ev)
         /\ nContent' = IF ev = "content" THEN nContent + 1 ELSE nContent
         /\ CASE ev \in {"raise", "no_choices"} ->
                   /\ Raise(frames)
                   /\ UNCHANGED <<ai_content, nEvents>>
              [] ev = "end" ->
                   /\ pc' = "gen_done"
                   /\ UNCHANGED <<frames, ai_content, nEvents, raised, framesAtRaise>>
              [] OTHER ->
                   /\ nEvents < MaxEvents
                   /\ nEvents' = nEvents + 1
                   /\ IF ev = "content"
                      THEN /\ ai_content' = Append(ai_content, "a")
                           /\ frames' = Append(frames, ChunkFrame("a"))
                      ELSE UNCHANGED <<ai_content, frames>>
                   /\ UNCHANGED <<pc, raised, framesAtRaise>>
    /\ UNCHANGED <<bridgeVars, libVars, swallowed, streamed, toneVars, refVars, reqVars, evVars, endpoint, task_type,
                   progress_queue, routeVars, saved, response>>

\* The else branch: _call_llm_api(stream=True).  When it routes to an adapter
\* it returns that adapter's generator, and response.iter_lines() raises
\* AttributeError; the default service returns a response or raises.
GeneralCall ==
    /\ pc = "gen_provider"
    /\ ~use_gpt_researcher /\ ~use_deepanalyze
    /\ NoteCall(_call_llm_api(user_message, force_provider))
    /\ IF _call_llm_api(user_message, force_provider) # "default"
       THEN Raise(frames)
       ELSE \E outcome \in {"response", "raise"} :
              IF outcome = "raise"
              THEN Raise(frames)
              ELSE /\ pc' = "gen_lines"
                   /\ UNCHANGED <<frames, raised, framesAtRaise>>
    /\ UNCHANGED <<bridgeVars, libVars, swallowed, streamed, lastEvent, nContent, toneVars, refVars, reqVars, evVars, endpoint, task_type,
                   ai_content, progress_queue, routeVars, nEvents, saved, response>>

\* One step of `for line in response.iter_lines()`: a line, the end of the
\* body, or an exception of the transport.
GeneralLine ==
    /\ pc = "gen_lines"
    /\ \/ /\ pc' = "gen_done"
          /\ lastEvent' = "other"
          /\ UNCHANGED <<frames, ai_content, nEvents, raised, framesAtRaise, swallowed,
                         streamed, nContent>>
       \/ /\ Raise(frames)
          /\ lastEvent' = "other"
          /\ UNCHANGED <<ai_content, nEvents, swallowed, streamed, nContent>>
       \/ /\ nEvents < MaxEvents
          /\ nEvents' = nEvents + 1
          /\ \E line \in StreamLines :
               LET r == ParseLine(line) IN
               /\ lastEvent' = LineKind(line)
               /\ nContent' = IF r.act = "emit" THEN nContent + 1 ELSE nContent
               /\ streamed' = IF DeltaOf(line) # ""
                              THEN Append(streamed, DeltaOf(line))
                              ELSE streamed
               /\ CASE r.act = "raise" ->
                      /\ Raise(frames)
                      /\ UNCHANGED <<ai_content, swallowed>>
                 [] r.act = "break" ->
                      /\ pc' = "gen_done"
                      /\ UNCHANGED <<frames, ai_content, raised, framesAtRaise,
                                     swallowed>>
                 [] r.act = "emit" ->
                      /\ ai_content' = Append(ai_content, r.content)
                      /\ frames' = Append(frames, ChunkFrame(r.content))
                      /\ UNCHANGED <<pc, raised, framesAtRaise, swallowed>>
                 [] r.act = "swallow" ->
                      /\ swallowed' = TRUE
                      /\ UNCHANGED <<pc, frames, ai_content, raised, framesAtRaise>>
                 [] OTHER ->
                      UNCHANGED <<pc, frames, ai_content, raised, framesAtRaise,
                                  swallowed>>
    /\ UNCHANGED <<bridgeVars, libVars, toneVars, refVars, reqVars, evVars, endpoint, task_type,
                   progress_queue, routeVars, provider, callAt, saved, response>>

\* The provider's output is exhausted: the done frame.
GenDone ==
    /\ pc = "gen_done"
    /\ frames' = Append(frames, DoneFrame)
    /\ pc' = "gen_save"
    /\ UNCHANGED <<bridgeVars, libVars, swallowed, streamed, lastEvent, nContent, toneVars, refVars, reqVars, evVars, endpoint, task_type,
                   ai_content, progress_queue, routeVars, provider, callAt, nEvents,
                   raised, framesAtRaise, saved, response>>

\* After done: the reply is stored; with no content the default reply is
\* stored and an error frame follows.
GenSave ==
    /\ pc = "gen_save"
    /\ LET content == IF ai_content # <<>> THEN ai_content ELSE <<DefaultReply>>
           w == _save_message(store, saved, "assistant", content)
           session == IF ai_content # <<>> THEN _create_or_update_session(store)
                      ELSE [raises |-> FALSE]
       IN IF w.raises \/ session.raises
          THEN /\ Raise(frames)
               /\ UNCHANGED saved
          ELSE /\ saved' = w.saved
               /\ frames' = IF ai_content # <<>> THEN frames
                            ELSE Append(frames, ErrorFrame(DefaultReply))
               /\ pc' = "closed"
               /\ UNCHANGED <<raised, framesAtRaise>>
    /\ UNCHANGED <<bridgeVars, libVars, swallowed, streamed, lastEvent, nContent, toneVars, refVars, reqVars, evVars,
                   endpoint, task_type, ai_content, progress_queue, routeVars,
                   provider, callAt, nEvents, response>>

(***************************************************************************)
(* The socket-to-generator bridge: chat_completions_stream with a progress *)
(* callback, _stream_with_websocket_progress, the background thread        *)
(* running _ws_client_async, and the loop of generate() that consumes the  *)
(* adapter's events.                                                       *)
(* Time is counted in ticks of 0.1 s; only sleeps, blocking calls and the  *)
(* consumer's suspension at a yield let it pass.                           *)
(***************************************************************************)
\* time.sleep(0.5) after the thread is started
StartupSleep == 5
\* time.sleep(0.1) at the end of one poll
PollSleep == 1
\* time.time() - last_progress_time > 5
HeartbeatWindow == 50
\* result_queue.get(timeout=2)
GraceWindow == 20
\* The steps in which the wait of result_queue.get(timeout=2) is followed.
GraceStep == 5
\* asyncio.wait_for(websocket.recv(), timeout=2.0)
RecvTimeout == 20
\* chunk_size = 20
chunk_size == 20
\* The environment's GPT_RESEARCHER_TIMEOUT, in ticks.
GPT_RESEARCHER_TIMEOUT == 52
\* The longest one call of chat_completions takes in the model (it returns
\* at once, or after that long); in the code each of its HTTP requests has
\* the timeout self.timeout.
MaxSyncTicks == 1
\* The longest the transport keeps the generator suspended at one yield
\* (it is resumed at once, or after that long).
MaxStall == 1
\* The log frames the socket server sends.
MaxProgress == 2
\* The pings of the background thread that are counted.
MaxPings == 1

\* A text is the sequence of parts re.split(r'([。！？\n])', text) gives,
\* without the empty ones: a run of at least chunk_size characters, a
\* shorter run, or one sentence mark.
LongRun == "long"
ShortRun == "short"
Mark == "mark"

PartLen(part) ==
    CASE part = LongRun -> chunk_size
      [] part = ShortRun -> 5
      [] part = Mark -> 1

RECURSIVE TextLen(_)
TextLen(text) == IF text = <<>> THEN 0 ELSE PartLen(Head(text)) + TextLen(Tail(text))

RECURSIVE Concat(_)
Concat(pieces) == IF pieces = <<>> THEN <<>> ELSE Head(pieces) \o Concat(Tail(pieces))

\* The loop over the parts: the buffer is yielded when it has chunk_size
\* characters or the part is a sentence mark; what is left in the buffer
\* after the last part is not yielded.
RECURSIVE SplitLoop(_, _, _)
SplitLoop(parts, buffer, pieces) ==
    IF parts = <<>> THEN pieces
    ELSE LET b == Append(buffer, Head(parts)) IN
         IF TextLen(b) >= chunk_size \/ Head(parts) = Mark
         THEN SplitLoop(Tail(parts), <<>>, Append(pieces, b))
         ELSE SplitLoop(Tail(parts), b, pieces)

\* The pieces one complete content is yielded in.
PseudoStreamPieces(content) == SplitLoop(content, <<>>, <<>>)

\* The contents a report comes with.
ReportTexts == {<<LongRun, Mark>>, <<LongRun, Mark, ShortRun>>}

\* final_content: where it came from (the socket, the HTTP call) and its text.
Content(src, text) == [src |-> src, text |-> text]
None == Content("none", <<>>)

\* One chunk the adapter yields: its delta's content and its finish_reason.
Event(delta, finish_reason) == [delta |-> delta, finish_reason |-> finish_reason]
EmptyEvent == Event(<<>>, "None")
StopEvent == Event(<<>>, "stop")
ContentEvents(pieces) == [i \in 1..Len(pieces) |-> Event(pieces[i], "None")]

\* A progress item: the n-th "logs" frame of the socket, or the keep-alive.
Progress(n) == [type |-> "progress", content |-> "logs", n |-> n]
Heartbeat == [type |-> "progress", content |-> "info", n |-> 0]
FallbackMarker == "fallback_marker"

\* "需要回退到HTTP请求" in str(error)
IsFallbackMarker(error) == error = FallbackMarker

\* A plausible slip: the keep-alive is sent as soon as the window is reached.
HeartbeatDueAtWindow(t, last) == t - last >= HeartbeatWindow

\* time.time() - last_progress_time > 5
HeartbeatDue(t, last) == t - last > HeartbeatWindow

\* A plausible slip: a chunk frame is made of every event.
ResearchChunkFramesEveryEvent(fr, queue, ai, event) ==
    [frames |-> fr \o ProgressFrames(queue) \o <<ChunkFrame(event.delta)>>,
     ai_content |-> ai \o event.delta]

\* The body of generate()'s loop over the research adapter's events: the
\* queued progress is sent first, then a chunk frame when the delta has
\* content.
ResearchChunk(fr, queue, ai, event) ==
    [frames |-> fr \o ProgressFrames(queue)
                   \o (IF event.delta # <<>> THEN <<ChunkFrame(event.delta)>> ELSE <<>>),
     ai_content |-> ai \o event.delta]

\* The loop over several events yielded in a row (nothing is handed to
\* progress_callback between them).
RECURSIVE ResearchLoop(_, _, _, _)
ResearchLoop(fr, queue, ai, events) ==
    IF events = <<>> THEN [frames |-> fr, queue |-> queue, ai_content |-> ai]
    ELSE LET r == ResearchChunk(fr, queue, ai, Head(events)) IN
         ResearchLoop(r.frames, <<>>, r.ai_content, Tail(events))

BridgeIdle ==
    /\ bpc = "idle"
    /\ now = 0
    /\ timeout = 0
    /\ last_progress_time = 0
    /\ grace_until = 0
    /\ final_content = None
    /\ ws_progress_queue = <<>>
    /\ result_queue = <<>>
    /\ error_queue = <<>>
    /\ ws_thread = "not_started"
    /\ ws_puts = 0
    /\ ws_pings = 0
    /\ sink = <<>>
    /\ yielded = <<>>
    /\ sync_calls = 0
    /\ terminal_at = -1
    /\ exit_by = "none"
    /\ last_handed_at = 0
    /\ hb_gap = -1
    /\ result_at = -1

BridgeInit ==
    /\ bpc = "start"
    /\ now = 0
    /\ timeout = 0
    /\ last_progress_time = 0
    /\ grace_until = 0
    /\ final_content = None
    /\ ws_progress_queue = <<>>
    /\ result_queue = <<>>
    /\ error_queue = <<>>
    /\ ws_thread = "not_started"
    /\ ws_puts = 0
    /\ ws_pings = 0
    /\ sink = <<>>
    /\ yielded = <<>>
    /\ sync_calls = 0
    /\ terminal_at = -1
    /\ exit_by = "none"
    /\ last_handed_at = 0
    /\ hb_gap = -1
    /\ result_at = -1

\* generate() of a research stream at its call of chat_completions_stream:
\* start and the evidence frame are sent.
GenAtResearch ==
    /\ endpoint = "stream"
    /\ task_type = "research"
    /\ pc = "gen_provider"
    /\ frames = <<StartFrame, EvidenceFrame(<<>>)>>
    /\ ai_content = <<>>
    /\ progress_queue = <<>>
    /\ force_provider = "gpt-researcher"
    /\ use_gpt_researcher = TRUE
    /\ use_deepanalyze = FALSE
    /\ provider = "gpt-researcher"
    /\ callAt = 2
    /\ nEvents = 0
    /\ raised = FALSE
    /\ framesAtRaise = <<>>
    /\ swallowed = FALSE
    /\ lastEvent = "none"
    /\ nContent = 0
    /\ streamed = <<>>
    /\ saved = <<>>
    /\ response = [code |-> 0, content |-> <<>>]

\* What the bridge leaves alone of the rest of the state; of generate() it
\* changes pc, frames, ai_content, progress_queue, raised and framesAtRaise.
BridgeGenRest == <<endpoint, task_type, routeVars, provider, callAt, nEvents,
                   swallowed, streamed, lastEvent, nContent, saved, response>>
BridgeRest == <<toneVars, refVars, reqVars, evVars, BridgeGenRest, libVars>>
BridgeOther == <<toneVars, refVars, reqVars, evVars, genVars, libVars>>

\* ---- the background thread: _ws_client_async
\* A "logs" frame: one progress item is put.
WsLogs ==
    /\ ws_thread = "running"
    /\ ws_puts < MaxProgress
    /\ ws_puts' = ws_puts + 1
    /\ ws_progress_queue' = Append(ws_progress_queue, Progress(ws_puts'))
    /\ UNCHANGED <<bpc, now, timeout, last_progress_time, grace_until,
                   final_content, result_queue, error_queue, ws_thread,
                   ws_pings, sink, yielded, sync_calls, terminal_at, exit_by,
                   last_handed_at, hb_gap, result_at, BridgeOther>>

\* recv() times out after 2 s of silence: a ping is sent and the loop goes
\* on.  Counted for a socket that has sent nothing yet.
WsPing ==
    /\ ws_thread = "running"
    /\ ws_puts = 0
    /\ ws_pings < MaxPings
    /\ now >= RecvTimeout * (ws_pings + 1)
    /\ ws_pings' = ws_pings + 1
    /\ UNCHANGED <<bpc, now, timeout, last_progress_time, grace_until,
                   final_content, ws_progress_queue, result_queue,
                   error_queue, ws_thread, ws_puts, sink, yielded,
                   sync_calls, terminal_at, exit_by, last_handed_at, hb_gap,
                   result_at, BridgeOther>>

\* A report frame with content: the result is put and the thread ends.
WsReport ==
    /\ ws_thread = "running"
    /\ \E text \in ReportTexts :
         result_queue' = Append(result_queue, Content("ws", text))
    /\ result_at' = now
    /\ ws_thread' = "finished"
    /\ UNCHANGED <<bpc, now, timeout, last_progress_time, grace_until,
                   final_content, ws_progress_queue, error_queue, ws_puts,
                   ws_pings, sink, yielded, sync_calls, terminal_at, exit_by,
                   last_handed_at, hb_gap, BridgeOther>>

\* A "path" frame before any report: the fallback marker is put.
WsPath ==
    /\ ws_thread = "running"
    /\ error_queue' = Append(error_queue, FallbackMarker)
    /\ ws_thread' = "finished"
    /\ UNCHANGED <<bpc, now, timeout, last_progress_time, grace_until,
                   final_content, ws_progress_queue, result_queue, ws_puts,
                   ws_pings, sink, yielded, sync_calls, terminal_at, exit_by,
                   last_handed_at, hb_gap, result_at, BridgeOther>>

\* The socket fails: the exception is put.
WsError ==
    /\ ws_thread = "running"
    /\ error_queue' = Append(error_queue, "error")
    /\ ws_thread' = "finished"
    /\ UNCHANGED <<bpc, now, timeout, last_progress_time, grace_until,
                   final_content, ws_progress_queue, result_queue, ws_puts,
                   ws_pings, sink, yielded, sync_calls, terminal_at, exit_by,
                   last_handed_at, hb_gap, result_at, BridgeOther>>

\* ---- the consumer: _stream_with_websocket_progress
\* ws_thread.start()
ThreadStart ==
    /\ bpc = "start"
    /\ ws_thread' = "running"
    /\ bpc' = "startup_sleep"
    /\ UNCHANGED <<now, timeout, last_progress_time, grace_until,
                   final_content, ws_progress_queue, result_queue,
                   error_queue, ws_puts, ws_pings, sink, yielded, sync_calls,
                   terminal_at, exit_by, last_handed_at, hb_gap, result_at,
                   BridgeOther>>

\* time.sleep(0.5), then the deadline and last_progress_time are set.
StartupAwake ==
    /\ bpc = "startup_sleep"
    /\ now' = now + StartupSleep
    /\ timeout' = now' + GPT_RESEARCHER_TIMEOUT
    /\ last_progress_time' = now'
    /\ last_handed_at' = now'
    /\ bpc' = "while"
    /\ UNCHANGED <<grace_until, final_content, ws_progress_queue,
                   result_queue, error_queue, ws_thread, ws_puts, ws_pings,
                   sink, yielded, sync_calls, terminal_at, exit_by, hb_gap,
                   result_at, BridgeOther>>

\* while time.time() < timeout
WhileTest ==
    /\ bpc = "while"
    /\ IF now < timeout
       THEN /\ bpc' = "check_error"
            /\ UNCHANGED exit_by
       ELSE /\ bpc' = "after_loop"
            /\ exit_by' = "timeout"
    /\ UNCHANGED <<now, timeout, last_progress_time, grace_until,
                   final_content, ws_progress_queue, result_queue,
                   error_queue, ws_thread, ws_puts, ws_pings, sink, yielded,
                   sync_calls, terminal_at, last_handed_at, hb_gap,
                   result_at, BridgeOther>>

\* error_queue.get_nowait(): the fallback marker breaks the loop, any other
\* error is raised, an empty queue lets the poll go on.
CheckError ==
    /\ bpc = "check_error"
    /\ IF error_queue = <<>>
       THEN /\ bpc' = "drain"
            /\ UNCHANGED <<error_queue, final_content, exit_by>>
       ELSE /\ error_queue' = Tail(error_queue)
            /\ IF IsFallbackMarker(Head(error_queue))
               THEN /\ final_content' = None
                    /\ exit_by' = "marker"
                    /\ bpc' = "after_loop"
               ELSE /\ bpc' = "except"
                    /\ UNCHANGED <<final_content, exit_by>>
    /\ UNCHANGED <<now, timeout, last_progress_time, grace_until,
                   ws_progress_queue, result_queue, ws_thread, ws_puts,
                   ws_pings, sink, yielded, sync_calls, terminal_at,
                   last_handed_at, hb_gap, result_at, BridgeOther>>

\* The progress queue is drained into progress_callback, which appends to
\* generate()'s list; when it held something, one chunk with an empty delta
\* is yielded and generate() sends the list.
DrainProgress ==
    /\ bpc = "drain"
    /\ sink' = sink \o ws_progress_queue
    /\ ws_progress_queue' = <<>>
    /\ IF ws_progress_queue # <<>>
       THEN /\ last_progress_time' = now
            /\ last_handed_at' = now
            /\ yielded' = Append(yielded, EmptyEvent)
            /\ LET r == ResearchChunk(frames, progress_queue \o ws_progress_queue,
                                      ai_content, EmptyEvent) IN
                 /\ frames' = r.frames
                 /\ ai_content' = r.ai_content
            /\ progress_queue' = <<>>
            /\ bpc' = "suspended"
       ELSE /\ bpc' = "check_result"
            /\ UNCHANGED <<last_progress_time, last_handed_at, yielded, frames,
                           ai_content, progress_queue>>
    /\ UNCHANGED <<now, timeout, grace_until, final_content, result_queue,
                   error_queue, ws_thread, ws_puts, ws_pings, sync_calls,
                   terminal_at, exit_by, hb_gap, result_at, pc, raised,
                   framesAtRaise, BridgeRest>>

\* The caller pulls again after the yield; the transport may have kept the
\* generator suspended meanwhile.
Resume ==
    /\ bpc = "suspended"
    /\ \E stall \in {0, MaxStall} : now' = now + stall
    /\ bpc' = "check_result"
    /\ UNCHANGED <<timeout, last_progress_time, grace_until, final_content,
                   ws_progress_queue, result_queue, error_queue, ws_thread,
                   ws_puts, ws_pings, sink, yielded, sync_calls, terminal_at,
                   exit_by, last_handed_at, hb_gap, result_at, BridgeOther>>

\* result_queue.get_nowait()
CheckResult ==
    /\ bpc = "check_result"
    /\ IF result_queue # <<>>
       THEN /\ final_content' = Head(result_queue)
            /\ result_queue' = Tail(result_queue)
            /\ exit_by' = "result"
            /\ bpc' = "after_loop"
       ELSE /\ bpc' = "heartbeat"
            /\ UNCHANGED <<final_content, result_queue, exit_by>>
    /\ UNCHANGED <<now, timeout, last_progress_time, grace_until,
                   ws_progress_queue, error_queue, ws_thread, ws_puts,
                   ws_pings, sink, yielded, sync_calls, terminal_at,
                   last_handed_at, hb_gap, result_at, BridgeOther>>

\* After more than 5 s without progress a keep-alive is handed to
\* progress_callback; then time.sleep(0.1).
HeartbeatSleep ==
    /\ bpc = "heartbeat"
    /\ IF HeartbeatDue(now, last_progress_time)
       THEN /\ sink' = Append(sink, Heartbeat)
            /\ progress_queue' = Append(progress_queue, Heartbeat)
            /\ last_progress_time' = now
            /\ hb_gap' = now - last_handed_at
            /\ last_handed_at' = now
       ELSE UNCHANGED <<sink, progress_queue, last_progress_time, hb_gap,
                        last_handed_at>>
    /\ now' = now + PollSleep
    /\ bpc' = "while"
    /\ UNCHANGED <<timeout, grace_until, final_content, ws_progress_queue,
                   result_queue, error_queue, ws_thread, ws_puts, ws_pings,
                   yielded, sync_calls, terminal_at, exit_by, result_at, pc,
                   frames, ai_content, raised, framesAtRaise, BridgeRest>>

\* if final_content is None: result_queue.get(timeout=2)
AfterLoop ==
    /\ bpc = "after_loop"
    /\ IF final_content = None
       THEN /\ bpc' = "grace"
            /\ grace_until' = now + GraceWindow
       ELSE /\ bpc' = "rechunk"
            /\ UNCHANGED grace_until
    /\ UNCHANGED <<now, timeout, last_progress_time, final_content,
                   ws_progress_queue, result_queue, error_queue, ws_thread,
                   ws_puts, ws_pings, sink, yielded, sync_calls, terminal_at,
                   exit_by, last_handed_at, hb_gap, result_at, BridgeOther>>

\* The blocking get returns as soon as the result is there.
GraceGet ==
    /\ bpc = "grace"
    /\ result_queue # <<>>
    /\ final_content' = Head(result_queue)
    /\ result_queue' = Tail(result_queue)
    /\ bpc' = "rechunk"
    /\ UNCHANGED <<now, timeout, last_progress_time, grace_until,
                   ws_progress_queue, error_queue, ws_thread, ws_puts,
                   ws_pings, sink, yielded, sync_calls, terminal_at, exit_by,
                   last_handed_at, hb_gap, result_at, BridgeOther>>

\* The blocking get waits; the wait is followed in steps of GraceStep ticks.
GraceWait ==
    /\ bpc = "grace"
    /\ result_queue = <<>>
    /\ now < grace_until
    /\ now' = IF now + GraceStep < grace_until THEN now + GraceStep ELSE grace_until
    /\ UNCHANGED <<bpc, timeout, last_progress_time, grace_until,
                   final_content, ws_progress_queue, result_queue,
                   error_queue, ws_thread, ws_puts, ws_pings, sink, yielded,
                   sync_calls, terminal_at, exit_by, last_handed_at, hb_gap,
                   result_at, BridgeOther>>

\* queue.Empty after 2 s: the synchronous fallback is next.
GraceEmpty ==
    /\ bpc = "grace"
    /\ result_queue = <<>>
    /\ now >= grace_until
    /\ bpc' = "sync"
    /\ UNCHANGED <<now, timeout, last_progress_time, grace_until,
                   final_content, ws_progress_queue, result_queue,
                   error_queue, ws_thread, ws_puts, ws_pings, sink, yielded,
                   sync_calls, terminal_at, exit_by, last_handed_at, hb_gap,
                   result_at, BridgeOther>>

\* What one call of chat_completions gives: a content (possibly empty), or
\* an exception.
SyncOutcomes == {Content("http", text) : text \in ReportTexts \cup {<<>>}}
                    \cup {Content("raise", <<>>)}

\* The fallback: self.chat_completions(...), a blocking call.  Its exception
\* leaves _stream_with_websocket_progress.
SyncFallback ==
    /\ bpc = "sync"
    /\ sync_calls' = sync_calls + 1
    /\ \E d \in {0, MaxSyncTicks}, outcome \in SyncOutcomes :
         /\ now' = now + d
         /\ IF outcome.src = "raise"
            THEN /\ bpc' = "except"
                 /\ UNCHANGED final_content
            ELSE /\ final_content' = outcome
                 /\ bpc' = "rechunk"
    /\ UNCHANGED <<timeout, last_progress_time, grace_until,
                   ws_progress_queue, result_queue, error_queue, ws_thread,
                   ws_puts, ws_pings, sink, yielded, terminal_at, exit_by,
                   last_handed_at, hb_gap, result_at, BridgeOther>>

\* if final_content: the content is yielded in pieces (the 0.05 s between
\* pieces is below one tick), then the stop chunk.  The generator returns,
\* and generate() sends the progress that is left.
Rechunk ==
    /\ bpc = "rechunk"
    /\ LET events == IF final_content.text # <<>>
                     THEN ContentEvents(PseudoStreamPieces(final_content.text))
                              \o <<StopEvent>>
                     ELSE <<>>
           r == ResearchLoop(frames, progress_queue, ai_content, events)
       IN /\ yielded' = yielded \o events
          /\ frames' = r.frames \o ProgressFrames(r.queue)
          /\ ai_content' = r.ai_content
    /\ progress_queue' = <<>>
    /\ pc' = "gen_done"
    /\ terminal_at' = now
    /\ bpc' = "returned"
    /\ UNCHANGED <<now, timeout, last_progress_time, grace_until,
                   final_content, ws_progress_queue, result_queue,
                   error_queue, ws_thread, ws_puts, ws_pings, sink,
                   sync_calls, exit_by, last_handed_at, hb_gap, result_at,
                   raised, framesAtRaise, BridgeRest>>

\* chat_completions_stream: an exception of the bridge is logged and the
\* traditional path runs: chat_completions once more, its content in pieces
\* and the stop chunk; its exception is raised to the caller, generate(),
\* whose handler sends the error frame.
LegacyPath ==
    /\ bpc = "except"
    /\ sync_calls' = sync_calls + 1
    /\ \E d \in {0, MaxSyncTicks}, outcome \in SyncOutcomes :
         /\ now' = now + d
         /\ terminal_at' = now'
         /\ IF outcome.src = "raise"
            THEN /\ bpc' = "raised"
                 /\ Raise(frames)
                 /\ UNCHANGED <<final_content, yielded, ai_content, progress_queue>>
            ELSE LET events == ContentEvents(PseudoStreamPieces(outcome.text))
                                   \o <<StopEvent>>
                     r == ResearchLoop(frames, progress_queue, ai_content, events)
                 IN /\ final_content' = outcome
                    /\ yielded' = yielded \o events
                    /\ frames' = r.frames \o ProgressFrames(r.queue)
                    /\ ai_content' = r.ai_content
                    /\ progress_queue' = <<>>
                    /\ pc' = "gen_done"
                    /\ bpc' = "returned"
                    /\ UNCHANGED <<raised, framesAtRaise>>
    /\ UNCHANGED <<timeout, last_progress_time, grace_until,
                   ws_progress_queue, result_queue, error_queue, ws_thread,
                   ws_puts, ws_pings, sink, exit_by, last_handed_at, hb_gap,
                   result_at, BridgeRest>>

(***************************************************************************)
(* The re-chunking of a complete result into pseudo-stream pieces, on its  *)
(* own: the loop after the bridge has its final content, and the same loop *)
(* in the traditional path of chat_completions_stream.                     *)
(***************************************************************************)
MaxParts == 4

\* A text in parts: no two runs follow each other (they would be one part).
IsText(parts) ==
    \A i \in 1..(Len(parts) - 1) : parts[i] = Mark \/ parts[i + 1] = Mark
Texts == {t \in SeqsUpTo({LongRun, ShortRun, Mark}, MaxParts) : IsText(t)}

\* The contents of the chunks _stream_with_websocket_progress yields for
\* final_content (none when it is empty).
BridgePieces(final) == IF final # <<>> THEN PseudoStreamPieces(final) ELSE <<>>

\* The contents of the chunks the traditional path yields for content.
LegacyPieces(content) == PseudoStreamPieces(content)

RechunkIdle ==
    /\ rcText = <<>>
    /\ rcOut = <<>>
    /\ rcOutLegacy = <<>>
    /\ rcPc = "idle"

RechunkInit ==
    /\ rcText \in Texts
    /\ rcOut = <<>>
    /\ rcOutLegacy = <<>>
    /\ rcPc = "none"

\* The bridge's loop runs over the text.
RechunkBridge ==
    /\ rcPc \in {"none", "legacy"}
    /\ rcOut' = BridgePieces(rcText)
    /\ rcPc' = IF rcPc = "none" THEN "bridge" ELSE "both"
    /\ UNCHANGED <<rcText, rcOutLegacy, toneVars, refVars, reqVars, evVars, genVars,
                   bridgeVars, dtVars, cacheVars, thrVars, eqVars, syVars>>

\* The traditional path's loop runs over the text.
RechunkLegacy ==
    /\ rcPc \in {"none", "bridge"}
    /\ rcOutLegacy' = LegacyPieces(rcText)
    /\ rcPc' = IF rcPc = "none" THEN "legacy" ELSE "both"
    /\ UNCHANGED <<rcText, rcOut, toneVars, refVars, reqVars, evVars, genVars,
                   bridgeVars, dtVars, cacheVars, thrVars, eqVars, syVars>>

(***************************************************************************)
(* detect_task_type on its own: the classifier is applied to one message.  *)
(***************************************************************************)
MaxWords == 2

\* Words of the messages: a research phrase, the analysis word in two
\* spellings, a dataset/table term, another data keyword, a chat-scene word,
\* a word that completes a two-word phrase, and a word of no list.
DetectWords ==
    {"yanjiu", "fenxi", "Analyze", "shuju", "tubiao", "qing", "baogao", "nihao"}

DetectMessages == UNION {[1..n -> DetectWords] : n \in 0..MaxWords}

DetectIdle ==
    /\ dtMessage = <<>>
    /\ dtResult = "none"
    /\ dtPc = "idle"

DetectInit ==
    /\ dtMessage \in DetectMessages
    /\ dtResult = "none"
    /\ dtPc = "start"

DetectTaskType ==
    /\ dtPc = "start"
    /\ dtResult' = detect_task_type(dtMessage)
    /\ dtPc' = "done"
    /\ UNCHANGED <<dtMessage, toneVars, refVars, reqVars, evVars, genVars,
                   bridgeVars, rcVars, cacheVars, thrVars, eqVars, syVars>>

(***************************************************************************)
(* search_web on its own: the process-wide cache, the persistent cache     *)
(* table and the upstream search.  Time is in seconds.                     *)
(***************************************************************************)
MaxNow == 2
MaxUpstream == 1
cache_ttl_seconds == 1

\* The calls made: (max_results, query); " " is white space.
SearchRequests ==
    {<<"6", <<"q1">>>>, <<"6", <<" ", "q1", " ">>>>, <<"8", <<"q1">>>>,
     <<"6", <<" ">>>>}

\* cache_key = f"{max_results}:{min_score}:{query}" (min_score is fixed)
CacheKey(max_results, query) == <<max_results, query>>

CacheKeys ==
    {CacheKey(r[1], strip(r[2])) : r \in {q \in SearchRequests : strip(q[2]) # <<>>}}

NoEntry == [present |-> FALSE, data |-> <<>>, expires_at |-> 0]
CacheEntry(data, expires_at) == [present |-> TRUE, data |-> data, expires_at |-> expires_at]

\* A plausible slip: an entry is still served at its expiry time.
CacheGetServesAtExpiry(c, key, t) ==
    IF ~c[key].present
    THEN [hit |-> FALSE, entry |-> NoEntry, cache |-> c]
    ELSE IF c[key].expires_at < t
    THEN [hit |-> FALSE, entry |-> NoEntry, cache |-> [c EXCEPT ![key] = NoEntry]]
    ELSE [hit |-> TRUE, entry |-> c[key], cache |-> c]

\* _cache_get at time t: the entry served (if any) and the cache afterwards.
_cache_get(c, key, t) ==
    IF ~c[key].present
    THEN [hit |-> FALSE, entry |-> NoEntry, cache |-> c]
    ELSE IF c[key].expires_at <= t
    THEN [hit |-> FALSE, entry |-> NoEntry, cache |-> [c EXCEPT ![key] = NoEntry]]
    ELSE [hit |-> TRUE, entry |-> c[key], cache |-> c]

_cache_set(c, key, data, ttl_seconds, t) ==
    [c EXCEPT ![key] = CacheEntry(data, t + ttl_seconds)]

\* _db_get_cache: the newest row of the key that has not expired; None when
\* the store is not reachable.
_db_get_cache(rows, key, t, reachable) ==
    IF reachable /\ rows[key].present /\ rows[key].expires_at > t
    THEN rows[key] ELSE NoEntry

MaxOf(a, b) == IF a >= b THEN a ELSE b

NoSearch ==
    [query |-> <<>>, key |-> CacheKey("6", <<>>), at |-> 0, from |-> "none",
     data |-> <<>>, served |-> NoEntry, called |-> FALSE, prior |-> NoEntry]

CacheInit ==
    /\ _CACHE = [key \in CacheKeys |-> NoEntry]
    /\ dbRows = [key \in CacheKeys |-> NoEntry]
    /\ cnow = 0
    /\ upstreamCalls = 0
    /\ sw = NoSearch

CacheIdle == CacheInit

CacheOther ==
    <<toneVars, refVars, reqVars, evVars, genVars, bridgeVars, rcVars, dtVars, thrVars,
      eqVars, syVars>>

\* Time passes.
CacheTick ==
    /\ cnow < MaxNow
    /\ cnow' = cnow + 1
    /\ UNCHANGED <<_CACHE, dbRows, upstreamCalls, sw, CacheOther>>

\* Another process of the service stores the results of its own search in
\* the persistent table.
PeerStores ==
    /\ \E key \in CacheKeys :
         dbRows' = [dbRows EXCEPT ![key] = CacheEntry(<<"items">>, cnow + cache_ttl_seconds)]
    /\ UNCHANGED <<_CACHE, cnow, upstreamCalls, sw, CacheOther>>

\* One call of search_web.  The upstream search takes d seconds and returns
\* results (none, or the items of this call), or raises; the persistent
\* table is reachable or not.
SearchWeb ==
    \E request \in SearchRequests :
        LET query == strip(request[2])
            key == CacheKey(request[1], query)
            Note(from, data, served, called, prior) ==
                sw' = [query |-> request[2], key |-> key, at |-> cnow, from |-> from,
                       data |-> data, served |-> served, called |-> called,
                       prior |-> prior]
        IN
        /\ IF query = <<>>
           THEN /\ Note("blank", <<>>, NoEntry, FALSE, NoEntry)
                /\ UNCHANGED <<_CACHE, dbRows, cnow, upstreamCalls>>
           ELSE LET cached == _cache_get(_CACHE, key, cnow) IN
                IF cached.hit
                THEN /\ Note("cache", cached.entry.data, cached.entry, FALSE, _CACHE[key])
                     /\ _CACHE' = cached.cache
                     /\ UNCHANGED <<dbRows, cnow, upstreamCalls>>
                ELSE \E reachable \in BOOLEAN :
                     LET db_cached == _db_get_cache(dbRows, key, cnow, reachable) IN
                     IF db_cached.present
                     THEN /\ Note("db", db_cached.data, NoEntry, FALSE, _CACHE[key])
                          /\ _CACHE' = _cache_set(cached.cache, key, db_cached.data,
                                                  MaxOf(1, db_cached.expires_at - cnow),
                                                  cnow)
                          /\ UNCHANGED <<dbRows, cnow, upstreamCalls>>
                     ELSE \E outcome \in {"no_key", "raise", "empty", "items"} :
                          IF outcome = "no_key"
                          THEN /\ Note("raise", <<>>, NoEntry, FALSE, _CACHE[key])
                               /\ _CACHE' = cached.cache
                               /\ UNCHANGED <<dbRows, cnow, upstreamCalls>>
                          ELSE \E d \in {0, 1} :
                               /\ upstreamCalls < MaxUpstream
                               /\ cnow + d <= MaxNow
                               /\ upstreamCalls' = upstreamCalls + 1
                               /\ cnow' = cnow + d
                               /\ IF outcome = "raise"
                                  THEN /\ Note("raise", <<>>, NoEntry, TRUE, _CACHE[key])
                                       /\ _CACHE' = cached.cache
                                       /\ UNCHANGED dbRows
                                  ELSE LET normalized == IF outcome = "empty" THEN <<>>
                                                         ELSE <<"items">>
                                       IN /\ Note("upstream", normalized, NoEntry, TRUE,
                                                  _CACHE[key])
                                          /\ _CACHE' =
                                                _cache_set(cached.cache, key, normalized,
                                                           cache_ttl_seconds, cnow + d)
                                          /\ dbRows' =
                                                IF reachable
                                                THEN [dbRows EXCEPT ![key] =
                                                         CacheEntry(normalized,
                                                             cnow + d + cache_ttl_seconds)]
                                                ELSE dbRows
        /\ UNCHANGED CacheOther

(***************************************************************************)
(* Concurrent requests in search_web: each thread runs the function step   *)
(* by step; `with _CACHE_LOCK` is entered when the lock is free and left   *)
(* at the end of the block.                                                *)
(***************************************************************************)
MaxSearches == 1

Threads == {"t1", "t2"}

ThreadRequests == {<<"6", <<"q1">>>>, <<"6", <<" ", "q1", " ">>>>, <<"6", <<" ">>>>}

\* A plausible slip: one critical section from the lookup to the update.
LockedStepsLookupToUpdate == {"cache_get", "db_get", "upstream", "cache_set"}

\* The steps of search_web that run inside `with _CACHE_LOCK`: the bodies of
\* _cache_get and _cache_set.
LockedSteps == {"cache_get", "cache_set"}

\* The steps that call the persistent table or the upstream search.
SlowSteps == {"db_get", "upstream", "db_set"}

NoResult == [from |-> "none", data |-> <<>>, ttl |-> 0]

ThreadsIdle ==
    /\ _CACHE_LOCK = "free"
    /\ tpc = [t \in Threads |-> "off"]
    /\ treq = [t \in Threads |-> <<"6", <<>>>>]
    /\ tres = [t \in Threads |-> NoResult]
    /\ tcalls = [t \in Threads |-> 0]

ThreadsInit ==
    /\ _CACHE_LOCK = "free"
    /\ tpc = [t \in Threads |-> "idle"]
    /\ treq = [t \in Threads |-> <<"6", <<>>>>]
    /\ tres = [t \in Threads |-> NoResult]
    /\ tcalls = [t \in Threads |-> 0]

ThreadOther ==
    <<toneVars, refVars, reqVars, evVars, genVars, bridgeVars, rcVars, dtVars, eqVars,
      syVars>>

\* Thread t moves from its step to step `to`: entering a locked step takes
\* the lock (and waits for it), leaving one gives it back.
Goto(t, to) ==
    /\ tpc' = [tpc EXCEPT ![t] = to]
    /\ IF to \in LockedSteps /\ _CACHE_LOCK # t
       THEN /\ _CACHE_LOCK = "free"
            /\ _CACHE_LOCK' = t
       ELSE IF to \notin LockedSteps /\ _CACHE_LOCK = t
       THEN _CACHE_LOCK' = "free"
       ELSE UNCHANGED _CACHE_LOCK

TKey(t) == CacheKey(treq[t][1], strip(treq[t][2]))

\* search_web is called: the query is stripped; an empty query returns [],
\* any other goes to _cache_get.
ThreadCall(t) ==
    /\ tpc[t] = "idle"
    /\ tcalls[t] < MaxSearches
    /\ tcalls' = [tcalls EXCEPT ![t] = @ + 1]
    /\ \E request \in ThreadRequests :
         /\ treq' = [treq EXCEPT ![t] = request]
         /\ IF strip(request[2]) = <<>>
            THEN /\ Goto(t, "idle")
                 /\ tres' = [tres EXCEPT ![t] = [NoResult EXCEPT !.from = "blank"]]
            ELSE /\ Goto(t, "cache_get")
                 /\ tres' = [tres EXCEPT ![t] = NoResult]
    /\ UNCHANGED <<cacheVars, ThreadOther>>

\* The body of _cache_get and the test of its result.
ThreadCacheGet(t) ==
    /\ tpc[t] = "cache_get"
    /\ LET cached == _cache_get(_CACHE, TKey(t), cnow) IN
         /\ _CACHE' = cached.cache
         /\ IF cached.hit
            THEN /\ tres' = [tres EXCEPT ![t] =
                               [from |-> "cache", data |-> cached.entry.data, ttl |-> 0]]
                 /\ Goto(t, "idle")
            ELSE /\ UNCHANGED tres
                 /\ Goto(t, "db_get")
    /\ UNCHANGED <<dbRows, cnow, upstreamCalls, sw, treq, tcalls, ThreadOther>>

\* _db_get_cache: a row sends the thread to _cache_set with the rest of the
\* row's life, no row sends it to the upstream search.
ThreadDbGet(t) ==
    /\ tpc[t] = "db_get"
    /\ \E reachable \in BOOLEAN :
         LET db_cached == _db_get_cache(dbRows, TKey(t), cnow, reachable) IN
         IF db_cached.present
         THEN /\ tres' = [tres EXCEPT ![t] =
                            [from |-> "db", data |-> db_cached.data,
                             ttl |-> MaxOf(1, db_cached.expires_at - cnow)]]
              /\ Goto(t, "cache_set")
         ELSE /\ UNCHANGED tres
              /\ Goto(t, "upstream")
    /\ UNCHANGED <<cacheVars, treq, tcalls, ThreadOther>>

\* The upstream search: the key is missing, the call raises, or it answers.
ThreadUpstream(t) ==
    /\ tpc[t] = "upstream"
    /\ \E outcome \in {"no_key", "raise", "empty", "items"} :
         /\ upstreamCalls' = IF outcome = "no_key" THEN upstreamCalls
                             ELSE upstreamCalls + 1
         /\ IF outcome \in {"no_key", "raise"}
            THEN /\ tres' = [tres EXCEPT ![t] = [NoResult EXCEPT !.from = "raise"]]
                 /\ Goto(t, "idle")
            ELSE /\ tres' = [tres EXCEPT ![t] =
                               [from |-> "upstream",
                                data |-> IF outcome = "empty" THEN <<>> ELSE <<"items">>,
                                ttl |-> cache_ttl_seconds]]
                 /\ Goto(t, "cache_set")
    /\ UNCHANGED <<_CACHE, dbRows, cnow, sw, treq, tcalls, ThreadOther>>

\* The body of _cache_set; after a row of the table the function returns,
\* after the upstream search _db_set_cache follows.
ThreadCacheSet(t) ==
    /\ tpc[t] = "cache_set"
    /\ _CACHE' = _cache_set(_CACHE, TKey(t), tres[t].data, tres[t].ttl, cnow)
    /\ Goto(t, IF tres[t].from = "db" THEN "idle" ELSE "db_set")
    /\ UNCHANGED <<dbRows, cnow, upstreamCalls, sw, treq, tres, tcalls, ThreadOther>>

\* _db_set_cache: the row is inserted, or the table is not reachable.
ThreadDbSet(t) ==
    /\ tpc[t] = "db_set"
    /\ \E reachable \in BOOLEAN :
         dbRows' = IF reachable
                   THEN [dbRows EXCEPT ![TKey(t)] =
                            CacheEntry(tres[t].data, cnow + cache_ttl_seconds)]
                   ELSE dbRows
    /\ Goto(t, "idle")
    /\ UNCHANGED <<_CACHE, cnow, upstreamCalls, sw, treq, tres, tcalls, ThreadOther>>

(***************************************************************************)
(* One request on both endpoints: the same message and task type are sent  *)
(* to /chat and to /chat/stream, and the provider that is selected gives   *)
(* the same answer (a text in parts) to both.                              *)
(***************************************************************************)
EndpointTexts == {<<>>, <<LongRun, Mark>>, <<ShortRun>>, <<LongRun, Mark, ShortRun>>}

NotRun == [ran |-> FALSE, code |-> 0, provider |-> "none", ok |-> FALSE, content |-> <<>>]

\* chat(): the provider _call_llm_api selects is called once; its answer, or
\* the default reply when the answer is empty, is the content returned.
ChatOutcome(message, tt, text) ==
    LET user == strip(message) IN
    IF user = <<>>
    THEN [ran |-> TRUE, code |-> 400, provider |-> "none", ok |-> FALSE,
          content |-> <<>>]
    ELSE [ran |-> TRUE, code |-> 200,
          provider |-> _call_llm_api(user, ForceProviderOf(tt)), ok |-> TRUE,
          content |-> IF text = <<>> THEN <<DefaultReply>> ELSE text]

\* The deltas of an adapter or a response body that streams the text part
\* by part.
PartDeltas(text) == [i \in 1..Len(text) |-> <<text[i]>>]

\* chat_stream(): the branch generate() takes and the contents of its chunk
\* frames: the research branch re-chunks the report, the data-analysis
\* branch and the else branch pass the deltas on; in the else branch an
\* adapter's generator has no iter_lines() and the stream fails.
StreamOutcome(message, tt, text) ==
    LET user == strip(message)
        r == StreamRoute(user, tt)
    IN
    IF user = <<>>
    THEN [ran |-> TRUE, code |-> 400, provider |-> "none", ok |-> FALSE,
          content |-> <<>>]
    ELSE IF r.use_gpt_researcher
    THEN [ran |-> TRUE, code |-> 200, provider |-> "gpt-researcher", ok |-> TRUE,
          content |-> BridgePieces(text)]
    ELSE IF r.use_deepanalyze
    THEN [ran |-> TRUE, code |-> 200, provider |-> "deepanalyze", ok |-> TRUE,
          content |-> PartDeltas(text)]
    ELSE LET called == _call_llm_api(user, r.force_provider) IN
         [ran |-> TRUE, code |-> 200, provider |-> called, ok |-> called = "default",
          content |-> IF called = "default" THEN PartDeltas(text) ELSE <<>>]

EndpointsIdle ==
    /\ eqMessage = <<>>
    /\ eqTaskType = "none"
    /\ eqText = <<>>
    /\ eqChat = NotRun
    /\ eqStream = NotRun

EndpointsInit ==
    /\ eqMessage \in StreamMessages
    /\ eqTaskType \in TaskTypes
    /\ eqText \in EndpointTexts
    /\ eqChat = NotRun
    /\ eqStream = NotRun

EndpointsOther ==
    <<toneVars, refVars, reqVars, evVars, genVars, bridgeVars, rcVars, dtVars, cacheVars,
      thrVars, syVars>>

PostChat ==
    /\ ~eqChat.ran
    /\ eqChat' = ChatOutcome(eqMessage, eqTaskType, eqText)
    /\ UNCHANGED <<eqMessage, eqTaskType, eqText, eqStream, EndpointsOther>>

PostChatStream ==
    /\ ~eqStream.ran
    /\ eqStream' = StreamOutcome(eqMessage, eqTaskType, eqText)
    /\ UNCHANGED <<eqMessage, eqTaskType, eqText, eqChat, EndpointsOther>>

(***************************************************************************)
(* GPTResearcherAdapter.chat_completions on its own: the report endpoint,  *)
(* the fallback to the chat endpoint, and what the call returns or raises. *)
(***************************************************************************)
\* What a POST gives: an answer, an answer that is no JSON, a timeout, a
\* connection error, or a status that raise_for_status() turns into
\* HTTPError.
Answer(kind, status) == [kind |-> kind, status |-> status]

HttpStatuses == {400, 404, 500, 502, 503}

ReportOutcomes ==
    {Answer(k, 200) : k \in {"ok", "badjson"}}
        \cup {Answer(k, 0) : k \in {"timeout", "connection"}}
        \cup {Answer("http", st) : st \in HttpStatuses}

ChatOutcomes ==
    {Answer(k, 200) : k \in {"ok", "badjson"}}
        \cup {Answer(k, 0) : k \in {"timeout", "connection"}}
        \cup {Answer("http", st) : st \in {404, 500}}

\* A plausible slip: every HTTP error of the report endpoint falls back.
TriggersFallbackAnyStatus(outcome) == outcome.kind \in {"timeout", "http"}

\* The inner handlers of chat_completions: Timeout, and HTTPError with
\* status 500.
TriggersFallback(outcome) ==
    \/ outcome.kind = "timeout"
    \/ outcome.kind = "http" /\ outcome.status = 500

NoOutcome == [kind |-> "none", from |-> "none"]
Returned(from) == [kind |-> "return", from |-> from]
ProviderError == [kind |-> "raise", from |-> "Exception"]

SyncIdle ==
    /\ syUse = FALSE
    /\ syReport = Answer("ok", 200)
    /\ syChat = Answer("ok", 200)
    /\ syPc = "idle"
    /\ syCalls = <<>>
    /\ syResult = NoOutcome

SyncInit ==
    /\ syUse \in BOOLEAN
    /\ syReport \in ReportOutcomes
    /\ syChat \in ChatOutcomes
    /\ syPc = "start"
    /\ syCalls = <<>>
    /\ syResult = NoOutcome

SyncOther ==
    <<toneVars, refVars, reqVars, evVars, genVars, bridgeVars, rcVars, dtVars, cacheVars,
      thrVars, eqVars>>

\* use_report_endpoint: the POST to the report endpoint and the handlers
\* around it.
PostReport ==
    /\ syPc = "start"
    /\ syUse
    /\ syCalls' = Append(syCalls, "report")
    /\ IF syReport.kind = "ok"
       THEN /\ syResult' = Returned("report")
            /\ syPc' = "done"
       ELSE IF TriggersFallback(syReport)
       THEN /\ syPc' = "fallback"
            /\ UNCHANGED syResult
       ELSE /\ syResult' = ProviderError
            /\ syPc' = "done"
    /\ UNCHANGED <<syUse, syReport, syChat, SyncOther>>

\* _fallback_to_chat_endpoint, called from a handler: its answer is
\* returned, its exception goes to the outer handlers and is raised.
FallbackToChat ==
    /\ syPc = "fallback"
    /\ syCalls' = Append(syCalls, "chat")
    /\ syResult' = IF syChat.kind = "ok" THEN Returned("chat") ELSE ProviderError
    /\ syPc' = "done"
    /\ UNCHANGED <<syUse, syReport, syChat, SyncOther>>

\* The else branch: the chat endpoint is called directly.
PostChatEndpoint ==
    /\ syPc = "start"
    /\ ~syUse
    /\ syCalls' = Append(syCalls, "chat")
    /\ syResult' = IF syChat.kind = "ok" THEN Returned("chat") ELSE ProviderError
    /\ syPc' = "done"
    /\ UNCHANGED <<syUse, syReport, syChat, SyncOther>>

LibIdle == RechunkIdle /\ DetectIdle /\ CacheIdle /\ ThreadsIdle /\ EndpointsIdle /\ SyncIdle

(***************************************************************************)
(* Specifications.                                                         *)
(***************************************************************************)
InitTone == ToneInit /\ RefsIdle /\ ReqIdle /\ EvIdle /\ GenIdle /\ BridgeIdle /\ LibIdle
NextTone == NormalizeTone
SpecTone == InitTone /\ [][NextTone]_vars

InitRefs == RefsInit /\ ToneIdle /\ ReqIdle /\ EvIdle /\ GenIdle /\ BridgeIdle /\ LibIdle
NextRefs == ConvertReport \/ ConvertReportAgain
SpecRefs == InitRefs /\ [][NextRefs]_vars

InitEvidence == EvidenceInit /\ ToneIdle /\ RefsIdle /\ GenIdle /\ BridgeIdle /\ LibIdle
NextEvidence == BuildRetrieval
SpecEvidence == InitEvidence /\ [][NextEvidence]_vars

Init == StreamInit /\ ToneIdle /\ RefsIdle /\ BridgeIdle /\ LibIdle
Next ==
    \/ HandleRequest
    \/ Chat
    \/ GenStart
    \/ GenEvidence
    \/ ResearchNext
    \/ DeepanalyzeNext
    \/ GeneralCall
    \/ GeneralLine
    \/ GenDone
    \/ GenSave
Spec == Init /\ [][Next]_vars

InitBridge == BridgeInit /\ ToneIdle /\ RefsIdle /\ ReqIdle /\ EvIdle /\ GenAtResearch /\ LibIdle
NextBridge ==
    \/ WsLogs
    \/ WsPing
    \/ WsReport
    \/ WsPath
    \/ WsError
    \/ ThreadStart
    \/ StartupAwake
    \/ WhileTest
    \/ CheckError
    \/ DrainProgress
    \/ Resume
    \/ CheckResult
    \/ HeartbeatSleep
    \/ AfterLoop
    \/ GraceGet
    \/ GraceWait
    \/ GraceEmpty
    \/ SyncFallback
    \/ Rechunk
    \/ LegacyPath
SpecBridge == InitBridge /\ [][NextBridge]_vars

InitRechunk ==
    /\ RechunkInit /\ ToneIdle /\ RefsIdle /\ ReqIdle /\ EvIdle /\ GenIdle
    /\ BridgeIdle /\ DetectIdle /\ CacheIdle /\ ThreadsIdle /\ EndpointsIdle /\ SyncIdle
NextRechunk == RechunkBridge \/ RechunkLegacy
SpecRechunk == InitRechunk /\ [][NextRechunk]_vars

InitDetect ==
    /\ DetectInit /\ ToneIdle /\ RefsIdle /\ ReqIdle /\ EvIdle /\ GenIdle
    /\ BridgeIdle /\ RechunkIdle /\ CacheIdle /\ ThreadsIdle /\ EndpointsIdle /\ SyncIdle
NextDetect == DetectTaskType
SpecDetect == InitDetect /\ [][NextDetect]_vars

InitCache ==
    /\ CacheInit /\ ToneIdle /\ RefsIdle /\ ReqIdle /\ EvIdle /\ GenIdle
    /\ BridgeIdle /\ RechunkIdle /\ DetectIdle /\ ThreadsIdle /\ EndpointsIdle /\ SyncIdle
NextCache == CacheTick \/ PeerStores \/ SearchWeb
SpecCache == InitCache /\ [][NextCache]_vars

InitCacheLock ==
    /\ CacheInit /\ ThreadsInit /\ ToneIdle /\ RefsIdle /\ ReqIdle /\ EvIdle
    /\ GenIdle /\ BridgeIdle /\ RechunkIdle /\ DetectIdle /\ EndpointsIdle /\ SyncIdle
NextCacheLock ==
    \/ CacheTick
    \/ \E t \in Threads :
         \/ ThreadCall(t)
         \/ ThreadCacheGet(t)
         \/ ThreadDbGet(t)
         \/ ThreadUpstream(t)
         \/ ThreadCacheSet(t)
         \/ ThreadDbSet(t)
SpecCacheLock == InitCacheLock /\ [][NextCacheLock]_vars

InitEndpoints ==
    /\ EndpointsInit /\ ToneIdle /\ RefsIdle /\ ReqIdle /\ EvIdle /\ GenIdle
    /\ BridgeIdle /\ RechunkIdle /\ DetectIdle /\ CacheIdle /\ ThreadsIdle /\ SyncIdle
NextEndpoints == PostChat \/ PostChatStream
SpecEndpoints == InitEndpoints /\ [][NextEndpoints]_vars

InitSync ==
    /\ SyncInit /\ ToneIdle /\ RefsIdle /\ ReqIdle /\ EvIdle /\ GenIdle
    /\ BridgeIdle /\ RechunkIdle /\ DetectIdle /\ CacheIdle /\ ThreadsIdle
    /\ EndpointsIdle
NextSync == PostReport \/ FallbackToChat \/ PostChatEndpoint
SpecSync == InitSync /\ [][NextSync]_vars

(***************************************************************************)
(* Claims.                                                                 *)
(***************************************************************************)

FrameTypes(fr) == [i \in 1..Len(fr) |-> fr[i].type]
CountType(fr, type) == Cardinality({i \in 1..Len(fr) : fr[i].type = type})
IsTerminal(type) == type \in {"done", "error"}

\* C1: when a stream has ended, its frame types, progress frames left out,
\* match start, evidence?, chunk*, (done|error): one terminal frame, last.
C1_FrameSequence ==
    pc = "closed" =>
        LET ts == SelectSeq(FrameTypes(frames), LAMBDA t : t # "progress") IN
        /\ Len(ts) >= 2
        /\ ts[1] = "start"
        /\ IsTerminal(ts[Len(ts)])
        /\ \A i \in 2..(Len(ts) - 1) :
              ts[i] = "chunk" \/ (i = 2 /\ ts[i] = "evidence")

\* C2: once a stream has begun, start is its first frame and is emitted
\* once; an evidence frame comes right after start, before every chunk frame
\* and before the first call into a provider.
C2_StartFirstEvidenceBeforeChunks ==
    /\ (endpoint = "stream" /\ pc \notin {"request", "rejected", "gen_start"}) =>
          /\ Len(frames) >= 1
          /\ frames[1].type = "start"
          /\ CountType(frames, "start") = 1
    /\ \A i \in 1..Len(frames) :
          frames[i].type = "evidence" =>
              /\ i > 1
              /\ \A j \in 1..(i - 1) : frames[j].type \notin {"chunk", "done", "error"}
              /\ (callAt >= 0 => callAt >= i)
    /\ (endpoint = "stream" /\ callAt >= 0) => callAt >= 1

C2_Witness ==
    /\ pc = "closed"
    /\ frames[1].type = "start"
    /\ frames[2].type = "evidence" /\ frames[2].items # <<>>
    /\ frames[3].type = "chunk"
    /\ callAt = 2

\* C3 as stated: once streaming has begun, any exception of the adapter or of
\* the line parser ends the stream with one error frame, and no done frame is
\* emitted on that path.
C3_AnyExceptionEndsStream ==
    /\ pc # "escaped"
    /\ (endpoint = "stream" /\ pc = "closed" /\ (raised \/ swallowed)) =>
          /\ frames[Len(frames)].type = "error"
          /\ CountType(frames, "error") = 1
          /\ CountType(frames, "done") = 0

\* C3 amended: an exception that leaves the selected adapter, the General
\* call or the iteration and decoding of the response lines never escapes
\* generate(): it ends the stream with one error frame after the frames
\* already sent, and no done frame is emitted.  An exception raised while one
\* line is parsed is caught inside the loop and ends nothing.
C3_ExceptionBecomesErrorFrame ==
    /\ pc # "escaped"
    /\ (endpoint = "stream" /\ raised) =>
          /\ pc = "closed"
          /\ frames = Append(framesAtRaise, ErrorFrame("stream_error"))
          /\ CountType(frames, "error") = 1
          /\ CountType(frames, "done") = 0
          /\ frames[1].type = "start"
    /\ (endpoint = "stream" /\ swallowed /\ ~raised) =>
          \A i \in 1..Len(frames) : frames[i] # ErrorFrame("stream_error")

C3_Witness ==
    /\ endpoint = "stream"
    /\ raised
    /\ swallowed
    /\ pc = "closed"
    /\ CountType(framesAtRaise, "chunk") >= 1
    /\ frames[Len(frames)].type = "error"

\* C7: an explicit task type decides the provider, whatever the message holds.
C7_OverrideDecidesProvider ==
    provider # "none" =>
        /\ (task_type = "research" => provider = "gpt-researcher")
        /\ (task_type = "data" => provider = "deepanalyze")
        /\ (task_type = "chat" => provider = "default")

\* C4: when the background thread never puts a result or an error, the
\* consumer reaches its terminal state (content or an exception) no later
\* than the global timeout plus the 2 s grace window.
C4_TerminalWithinTimeoutPlusGrace ==
    (bpc \in {"returned", "raised"} /\ ws_thread = "running") =>
        terminal_at <= timeout + GraceWindow

\* C11: a request with task type auto whose message holds a research-intent
\* phrase is served by the Research adapter, on /chat and on /chat/stream.
HasResearchPhrase(message) == ContainsAny(LowerText(message), research_patterns)

C11_ResearchPhraseSelectsResearch ==
    (task_type = "auto" /\ HasResearchPhrase(user_message)) =>
        /\ (provider # "none" => provider = "gpt-researcher")
        /\ (endpoint = "stream" /\ pc \notin {"request", "gen_start"}) =>
              (use_gpt_researcher /\ force_provider = "None")
        /\ pc \in {"responded", "closed"} => provider = "gpt-researcher"

C11_Witness ==
    /\ task_type = "auto"
    /\ user_message = <<"yanjiu", "shuju">>
    /\ endpoint = "stream"
    /\ pc = "closed"
    /\ provider = "gpt-researcher"
    /\ \E i \in 1..Len(frames) : frames[i].type = "chunk"

\* C12: for a streaming request with task type auto and no research, analysis
\* or data keyword in the message, the General provider is selected, the
\* contents of the chunk frames, concatenated in order, are the deltas the
\* provider streamed up to the end sentinel, and the last frame is done.
NoTriggerKeyword(message) ==
    ~ContainsAny(LowerText(message),
                 research_patterns \cup analysis_words \cup analysis_data_terms
                     \cup data_keywords)

ChunkContents(fr) ==
    LET chunks == SelectSeq(fr, LAMBDA f : f.type = "chunk")
    IN [i \in 1..Len(chunks) |-> chunks[i].content]

C12_GeneralStreamEndsInDone ==
    (/\ endpoint = "stream"
     /\ task_type = "auto"
     /\ NoTriggerKeyword(user_message)
     /\ user_message # <<>>
     /\ pc = "closed"
     /\ ~raised) =>
        /\ provider = "default"
        /\ ChunkContents(frames) = streamed
        /\ frames[Len(frames)].type = "done"

\* C13: a collaborator that throws does not fail the request: the request goes
\* on to the provider, a stream whose provider answers still ends in done,
\* and the evidence list holds exactly the items of the collaborator that
\* succeeded (a list, empty when both threw).
OfOrigin(evidence, origin) == SelectSeq(evidence, LAMBDA item : item.origin = origin)

Threw(outcome, called) == called /\ outcome.kind = "raise"

C13_RetrievalFailureNotFatal ==
    (Threw(ragOutcome, ragCalled) \/ Threw(webOutcome, webCalled)) =>
        /\ pc # "rejected"
        /\ response.code = 500 => raised
        /\ OfOrigin(used_evidence, "rag") =
              (IF Threw(ragOutcome, ragCalled) THEN <<>>
               ELSE TagAll(ragOutcome.results, "rag"))
        /\ OfOrigin(used_evidence, "web") =
              (IF Threw(webOutcome, webCalled) THEN <<>>
               ELSE TagAll(search_web(webOutcome.results), "web"))
        /\ Len(used_evidence) =
              Len(OfOrigin(used_evidence, "rag")) + Len(OfOrigin(used_evidence, "web"))
        /\ Len(frames) >= 2 => frames[2] = EvidenceFrame(used_evidence)
        /\ (pc = "closed" /\ ~raised /\ ai_content # <<>>) =>
              frames[Len(frames)].type = "done"
        /\ (pc = "responded" /\ ~raised) => response.code = 200

C13_Witness ==
    /\ Threw(webOutcome, webCalled)
    /\ ~Threw(ragOutcome, ragCalled)
    /\ used_evidence = <<Tagged(Item("t1", "u1"), "rag")>>
    /\ endpoint = "stream"
    /\ pc = "closed"
    /\ frames[Len(frames)].type = "done"

\* C14: a request whose message is missing or blank after trimming is
\* rejected with a validation error, on /chat and /chat/stream, before any
\* provider call, any retrieval call and any write to the history store; no
\* stream is started.
Blank(text) == \A i \in 1..Len(text) : text[i] = " "

C14_BlankMessageRejected ==
    (Blank(body_message) /\ pc # "request") =>
        /\ pc = "rejected"
        /\ response.code = 400
        /\ provider = "none"
        /\ callAt = -1
        /\ ~ragCalled
        /\ ~webCalled
        /\ saved = <<>>
        /\ frames = <<>>

C14_Witness ==
    /\ body_message = <<" ">>
    /\ endpoint = "stream"
    /\ pc = "rejected"
    /\ response.code = 400

\* C15: a failure of the history store (its calls throw, or there is no
\* store) is never surfaced: no 500 and no error frame comes from it, and the
\* frames and the /chat response are those the provider's answer gives.
C15_StoreFailureNotSurfaced ==
    store # "ok" =>
        /\ pc # "failed"
        /\ response.code = 500 => (endpoint = "chat" /\ ai_content = <<>>)
        /\ ~(CountType(frames, "done") > 0 /\ ErrorFrame("stream_error") \in Range(frames))
        /\ (pc = "responded" /\ ai_content # <<>>) =>
              response = [code |-> 200, content |-> ai_content]
        /\ (pc = "closed" /\ ~raised) =>
              /\ CountType(frames, "done") = 1
              /\ ChunkContents(frames) = ai_content
              /\ (ai_content # <<>> => frames[Len(frames)].type = "done")

C15_Witness ==
    /\ store = "throws"
    /\ endpoint = "stream"
    /\ pc = "closed"
    /\ saved = <<>>
    /\ ai_content # <<>>
    /\ frames[Len(frames)].type = "done"

\* The positions of the consumer inside its poll loop.
Polling == {"while", "check_error", "drain", "suspended", "check_result", "heartbeat"}

\* The text of the contents of the events in order.
DeltasOf(events) == Concat([i \in 1..Len(events) |-> events[i].delta])

\* Once the consumer has taken the fallback marker it polls no more, the
\* marker is not what raises, and the content is the synchronous call's.
C16_MarkerSwitchesToSync ==
    exit_by = "marker" =>
        /\ bpc \notin Polling
        /\ ws_thread = "finished"
        /\ result_at = -1
        /\ bpc \in {"except", "raised"} => sync_calls >= 1
        /\ bpc \in {"rechunk", "returned"} =>
              (final_content.src = "http" /\ sync_calls >= 1)

\* C16: after a 'path' frame without a report the thread puts the fallback
\* marker; the consumer does not raise it, stops polling at its next check of
\* the error channel, takes its content from the synchronous report call and
\* streams that content.
C16_MarkerFallbackStreamsSyncContent ==
    /\ C16_MarkerSwitchesToSync
    /\ (exit_by = "marker" /\ bpc = "returned") =>
          DeltasOf(yielded) = final_content.text

IsLogs(progress) == progress.content = "logs"
Numbered(n) == [i \in 1..n |-> Progress(i)]

\* Every item the thread has put is in the sink once, in the order put, or
\* still queued; chunk frames are as many as the events with content.
C17_ItemsOnceInOrder ==
    /\ SelectSeq(sink, IsLogs) \o ws_progress_queue = Numbered(ws_puts)
    /\ CountType(frames, "chunk")
         = Len(SelectSeq(yielded, LAMBDA e : e.delta # <<>>))

\* One drain step: all that is queued goes to the sink, one event with an
\* empty delta is yielded exactly when something was queued, and that event
\* adds no chunk frame and no text.
C17_DrainStep ==
    (bpc = "drain" /\ bpc' # "drain") =>
        /\ sink' = sink \o ws_progress_queue
        /\ ws_progress_queue' = <<>>
        /\ yielded' = IF ws_progress_queue # <<>>
                      THEN Append(yielded, EmptyEvent) ELSE yielded
        /\ CountType(frames', "chunk") = CountType(frames, "chunk")
        /\ ai_content' = ai_content

\* C17: in each poll iteration the consumer drains every progress item queued
\* at that moment, hands each to the progress sink exactly once in FIFO
\* order, and yields exactly one zero-content event if and only if an item
\* was drained; a zero-content event never produces a chunk frame.
C17_DrainHandsAllYieldsOne == []C17_ItemsOnceInOrder /\ [][C17_DrainStep]_vars

C17_Witness ==
    /\ bpc = "suspended"
    /\ sink = <<Progress(1), Progress(2)>>
    /\ yielded = <<EmptyEvent>>
    /\ frames = <<StartFrame, EvidenceFrame(<<>>), ProgressFrame(Progress(1)),
                  ProgressFrame(Progress(2))>>

\* The keep-alive comes only after more than the window, and the window
\* restarts at every item handed over and at every keep-alive.
C18_KeepAliveAfterWindow ==
    /\ hb_gap = -1 \/ hb_gap > HeartbeatWindow
    /\ last_progress_time = last_handed_at
    /\ bpc = "while" => now - last_handed_at <= HeartbeatWindow + PollSleep

\* One heartbeat step: one keep-alive goes to the sink exactly when more
\* than the window has passed since the last hand-over.
C18_HeartbeatStep ==
    (bpc = "heartbeat" /\ bpc' # "heartbeat") =>
        IF now - last_handed_at > HeartbeatWindow
        THEN sink' = Append(sink, Heartbeat) /\ last_progress_time' = now
        ELSE sink' = sink

\* C18: while the consumer polls, whenever more than the heartbeat window
\* (5 s) has passed since the last progress item or the last keep-alive it
\* hands one keep-alive to the progress sink and restarts the window; no
\* keep-alive is produced while progress keeps arriving within the window.
C18_KeepAliveWhenSilent == []C18_KeepAliveAfterWindow /\ [][C18_HeartbeatStep]_vars

C18_Witness ==
    /\ sink = <<Progress(1), Heartbeat>>
    /\ hb_gap > HeartbeatWindow
    /\ bpc = "while"

\* After the loop ended by the timeout the consumer waits for the grace
\* window and no longer; a result of the window is taken without a
\* synchronous call, and a synchronous call is made only when no result
\* came before the window's end.
C19_GraceThenSync ==
    exit_by = "timeout" =>
        /\ bpc = "grace" =>
              /\ timeout <= grace_until - GraceWindow
              /\ grace_until - GraceWindow <= now
              /\ now <= grace_until
        /\ final_content.src = "ws" =>
              (sync_calls = 0 /\ result_at <= grace_until)
        /\ bpc = "sync" => now = grace_until
        /\ sync_calls >= 1 => (result_at = -1 \/ result_at >= grace_until)
        /\ (bpc \in {"rechunk", "returned"} /\ sync_calls >= 1) =>
              final_content.src = "http"

\* C19: when the global timeout expires with no result taken, the consumer
\* waits once on the result channel for the grace window (2 s); a result that
\* arrives in the window is streamed and the synchronous endpoint is not
\* called; otherwise the consumer falls back to the synchronous call and
\* streams its content.
C19_TimeoutGraceThenSyncStreams ==
    /\ C19_GraceThenSync
    /\ (exit_by = "timeout" /\ bpc = "returned") =>
          DeltasOf(yielded) = final_content.text

\* C20: the worker thread is bounded by the request's global timeout: once
\* the timeout has passed it is no longer running, also when the socket is
\* silent or the consumer has fallen back.
C20_WorkerStopsAtTimeout ==
    (ws_thread = "running" /\ bpc \notin {"start", "startup_sleep"}) =>
        now <= timeout

\* C21: re-chunking is lossless: the contents of the pieces, in order, make
\* up the complete result, in the bridge and in the traditional path, also
\* for a text whose last segment is short and has no sentence mark.
C21_RechunkLossless ==
    /\ rcPc \in {"bridge", "both"} => Concat(rcOut) = rcText
    /\ rcPc \in {"legacy", "both"} => Concat(rcOutLegacy) = rcText

\* The assistant messages in the history store.
AssistantSaved == SelectSeq(saved, LAMBDA msg : msg.role = "assistant")

\* C22: with a working store, a stream that ends with done has persisted
\* exactly one assistant message, whose text is the chunk contents sent, in
\* order; a stream that ends with error has persisted a placeholder
\* assistant message, and its last frame is terminal.
C22_PersistedOnTerminal ==
    (endpoint = "stream" /\ pc = "closed" /\ store = "ok") =>
        /\ frames[Len(frames)].type \in {"done", "error"}
        /\ frames[Len(frames)].type = "done" =>
              AssistantSaved = <<Saved("assistant", ChunkContents(frames))>>
        /\ frames[Len(frames)].type = "error" =>
              AssistantSaved = <<Saved("assistant", <<DefaultReply>>)>>

\* C23: in every stream the start frame has been sent when the first
\* provider adapter (research, data analysis or general) is called.
C23_StartBeforeProviderCall ==
    endpoint = "stream" =>
        /\ (provider # "none" \/ callAt >= 0) =>
              /\ callAt >= 1
              /\ frames[1] = StartFrame
        /\ pc \in {"request", "rejected", "failed", "gen_start"} =>
              (provider = "none" /\ callAt < 0)

C23_Witness ==
    /\ endpoint = "stream"
    /\ provider = "deepanalyze"
    /\ callAt >= 1
    /\ frames[1] = StartFrame
    /\ pc = "closed"

\* C24: no chunk frame has an empty content; a provider event whose delta is
\* empty, missing or of an unrecognized shape produces no frame (no chunk,
\* no error) and leaves the assembled text as it was, for the three
\* providers.
C24_EmptyDeltaDropped ==
    endpoint = "stream" =>
        /\ \A i \in 1..Len(frames) :
              frames[i].type = "chunk" => frames[i].content # ""
        /\ CountType(frames, "chunk") = nContent
        /\ Len(ai_content) = nContent
        /\ lastEvent = "dropped" => ~raised

\* C25: the General stream parser stops at the end sentinel in any letter
\* case, with or without the label prefix: after a sentinel line no later
\* line of the provider adds a chunk frame, and the stream ends with done.
C25_SentinelAnyCaseStops ==
    /\ [](lastEvent = "sentinel" /\ pc = "closed" =>
              frames[Len(frames)].type = "done")
    /\ [][lastEvent = "sentinel" =>
              ChunkContents(frames') = ChunkContents(frames)]_vars

\* C26: the General stream parser takes the delta from each of the wire
\* shapes and passes over a blank, comment or unparsable line without
\* aborting: the chunk frames are the deltas of the lines read, in order, and
\* no such line ends the stream in an error.
C26_ShapesParsedBadLinesSkipped ==
    (endpoint = "stream" /\ provider = "default") =>
        /\ ChunkContents(frames) = streamed
        /\ lastEvent \in {"dropped", "unreadable"} => ~raised

\* C27: detect_task_type follows the ordered table: a research-intent phrase
\* yields research, also with data-domain terms; otherwise the analysis word
\* with a dataset/table term yields data; otherwise any other data-domain
\* keyword yields data; otherwise the result is the general type.
DtLower == LowerText(dtMessage)
DtResearchPhrase == ContainsAny(DtLower, research_patterns)
DtAnalysisWord == ContainsAny(DtLower, analysis_words)
DtDataTerm == ContainsAny(DtLower, analysis_data_terms)
DtDataKeyword == ContainsAny(DtLower, data_keywords)
DtChatScene == ContainsAny(DtLower, chat_scene_words)

C27_OrderedTable ==
    dtPc = "done" =>
        /\ DtResearchPhrase => dtResult = "research"
        /\ (~DtResearchPhrase /\ DtAnalysisWord /\ DtDataTerm) => dtResult = "data"
        /\ (~DtResearchPhrase /\ ~(DtAnalysisWord /\ DtDataTerm) /\ DtDataKeyword)
              => dtResult = "data"
        /\ (~DtResearchPhrase /\ ~(DtAnalysisWord /\ DtDataTerm) /\ ~DtDataKeyword)
              => dtResult = "chat"

\* C27 as amended: between the analysis-with-dataset row and the data-keyword
\* row stands one more row: the analysis word without a chat-scene word
\* yields research.
C27_OrderedTableWithAnalysisRow ==
    dtPc = "done" =>
        /\ DtResearchPhrase => dtResult = "research"
        /\ (~DtResearchPhrase /\ DtAnalysisWord /\ DtDataTerm) => dtResult = "data"
        /\ (~DtResearchPhrase /\ DtAnalysisWord /\ ~DtDataTerm /\ ~DtChatScene)
              => dtResult = "research"
        /\ (~DtResearchPhrase /\ ~(DtAnalysisWord /\ ~DtChatScene) /\ DtDataKeyword)
              => dtResult = "data"
        /\ (~DtResearchPhrase /\ ~(DtAnalysisWord /\ ~DtChatScene) /\ ~DtDataKeyword)
              => dtResult = "chat"

C27_Witness ==
    /\ dtPc = "done"
    /\ dtMessage = <<"fenxi", "tubiao">>
    /\ dtResult = "research"

\* C28: inside the analysis branch the dataset/table terms are checked first
\* and every other message with the analysis word is research, whatever
\* other words it holds.
C28_AnalysisFallsToResearch ==
    (dtPc = "done" /\ DtAnalysisWord) =>
        /\ (DtDataTerm /\ ~DtResearchPhrase) => dtResult = "data"
        /\ ~DtDataTerm => dtResult = "research"

\* C28 as amended: every other message with the analysis word and without a
\* chat-scene word is research.
C28_AnalysisFallsToResearchUnlessChatScene ==
    (dtPc = "done" /\ DtAnalysisWord) =>
        /\ (DtDataTerm /\ ~DtResearchPhrase) => dtResult = "data"
        /\ (~DtDataTerm /\ ~DtChatScene) => dtResult = "research"

C28_Witness ==
    /\ dtPc = "done"
    /\ dtMessage = <<"Analyze", "tubiao">>
    /\ dtResult = "research"

\* C29: retrieval is triggered per kind: the local search is called only when
\* its flag is set or the message holds one of its keywords, the web search
\* only when its flag is set or the message holds one of its keywords, and
\* when neither is triggered no collaborator is called and there is no
\* evidence.
RagTriggered == use_rag \/ _contains_keyword(user_message, RAG_KEYWORDS)
WebTriggered == use_web_search \/ _contains_keyword(user_message, WEB_SEARCH_KEYWORDS)

C29_RetrievalTriggeredPerKind ==
    evPc = "built" =>
        /\ ragCalled => RagTriggered
        /\ webCalled => WebTriggered
        /\ (~RagTriggered /\ ~WebTriggered) =>
              (~ragCalled /\ ~webCalled /\ used_evidence = <<>>)

\* C30: the web-search cache evicts by TTL and is keyed by the normalized
\* query: a lookup never returns an entry whose expiry time has been reached
\* (the entry is removed instead), and a second search with the same
\* normalized query and parameters made before expiry returns the stored
\* results without calling the upstream search.
C30_CacheTtlKeyedByQuery ==
    sw.from # "none" =>
        /\ sw.key = CacheKey(sw.key[1], strip(sw.query))
        /\ sw.from = "cache" => sw.served.expires_at > sw.at
        /\ (sw.prior.present /\ sw.prior.expires_at <= sw.at) =>
              /\ sw.from # "cache"
              /\ _CACHE[sw.key] # sw.prior
              /\ _CACHE[sw.key].present => _CACHE[sw.key].expires_at > sw.at
        /\ (sw.prior.present /\ sw.prior.expires_at > sw.at) =>
              /\ sw.from = "cache"
              /\ sw.data = sw.prior.data
              /\ ~sw.called
              /\ _CACHE[sw.key] = sw.prior

C30_Witness ==
    /\ sw.from = "cache"
    /\ sw.query = <<" ", "q1", " ">>
    /\ sw.data = <<"items">>
    /\ upstreamCalls = 1
    /\ cnow > 0

\* C31: every read, write and eviction of the shared cache happens inside
\* the cache lock, and no thread holds the lock while it calls the upstream
\* search or the persistent table: a thread that waits in the upstream call
\* never keeps another thread from its cache lookup.
C31_CacheStep ==
    [][_CACHE' # _CACHE =>
          \E t \in Threads : _CACHE_LOCK = t /\ tpc[t] \in {"cache_get", "cache_set"}
                             /\ tpc'[t] # tpc[t]]_vars

C31_LockOnlyAroundCache ==
    /\ [](\A t \in Threads :
             /\ tpc[t] \in {"cache_get", "cache_set"} => _CACHE_LOCK = t
             /\ tpc[t] \in SlowSteps => _CACHE_LOCK # t
             /\ (tpc[t] \in SlowSteps /\ \A u \in Threads \ {t} : tpc[u] = "idle")
                   => _CACHE_LOCK = "free")
    /\ C31_CacheStep

C31_Witness ==
    /\ tpc["t1"] = "upstream"
    /\ tpc["t2"] = "cache_get"
    /\ _CACHE_LOCK = "t2"

\* C32: for every request /chat and /chat/stream select the same provider,
\* and when the provider succeeds the content /chat returns is the
\* concatenation of the chunk contents of /chat/stream.
C32_EndpointsAgree ==
    (eqChat.ran /\ eqStream.ran) =>
        /\ eqChat.provider = eqStream.provider
        /\ (eqChat.ok /\ eqStream.ok) => eqChat.content = Concat(eqStream.content)

\* C33: in the synchronous call a timeout or an HTTP 500 of the report
\* endpoint triggers exactly one fallback call to the chat endpoint whose
\* answer is returned; any other HTTP error, and any failure of the
\* fallback call, is raised as a provider error.
CallsTo(endpoint_name) ==
    Cardinality({i \in 1..Len(syCalls) : syCalls[i] = endpoint_name})

C33_FallbackOnTimeoutOr500 ==
    (syPc = "done" /\ syUse) =>
        /\ CallsTo("report") = 1
        /\ (syReport.kind = "timeout" \/ (syReport.kind = "http" /\ syReport.status = 500))
              => /\ CallsTo("chat") = 1
                 /\ syChat.kind = "ok" => syResult = Returned("chat")
                 /\ syChat.kind # "ok" => syResult.kind = "raise"
        /\ (syReport.kind = "http" /\ syReport.status # 500)
              => /\ CallsTo("chat") = 0
                 /\ syResult.kind = "raise"

C33_Witness ==
    /\ syPc = "done"
    /\ syUse
    /\ syReport = Answer("http", 500)
    /\ syCalls = <<"report", "chat">>
    /\ syResult = Returned("chat")

\* No error is raised and no synchronous call is made once a report has been
\* put on the result channel.
C34_ReportNoErrorNoSync ==
    result_at >= 0 =>
        /\ error_queue = <<>>
        /\ sync_calls = 0
        /\ bpc \notin {"sync", "except", "raised"}

\* C34: in the progressive path, once the background thread has put a report
\* on the result channel, the consumer streams exactly that report: under
\* every interleaving of the thread and the poll loop it neither raises an
\* error taken from the error channel nor calls the synchronous endpoint.
C34_ReportPutIsStreamed ==
    /\ C34_ReportNoErrorNoSync
    /\ (result_at >= 0 /\ bpc = "returned") =>
          /\ final_content.src = "ws"
          /\ DeltasOf(yielded) = final_content.text

\* Position of the first chunk frame, or one past the end when there is none.
FirstChunkAt(fr) ==
    IF \E i \in 1..Len(fr) : fr[i].type = "chunk"
    THEN CHOOSE i \in 1..Len(fr) :
            /\ fr[i].type = "chunk"
            /\ \A j \in 1..(i - 1) : fr[j].type # "chunk"
    ELSE Len(fr) + 1

\* C35: no progress is lost: every progress item the thread enqueued before
\* the result is handed to the progress sink and is a progress frame before
\* the first chunk frame of the report, under every interleaving of the
\* thread's puts with the consumer's drain and result check.
C35_NoProgressLost ==
    (final_content.src = "ws" /\ bpc = "returned") =>
        \A n \in 1..ws_puts :
            /\ \E k \in 1..Len(sink) : sink[k] = Progress(n)
            /\ \E i \in 1..(FirstChunkAt(frames) - 1) :
                  /\ frames[i].type = "progress"
                  /\ frames[i].content = Progress(n)

\* C36: within one streaming research request chat_completions is invoked at
\* most once, whichever way the progressive path ends: result received,
\* fallback marker, worker error, global timeout, or a failure of the
\* synchronous call itself.
C36_SyncCalledAtMostOnce == sync_calls <= 1

IsProgressFrame(frame) == frame.type = "progress"
IsTerminalFrame(frame) == frame.type \in {"done", "error"}

\* The progress frames sent, followed by what generate() still holds, are
\* the items handed to the sink, once each and in the order handed over.
C37_HandedOnceInOrder ==
    SelectSeq(frames, IsProgressFrame) \o ProgressFrames(progress_queue)
        = ProgressFrames(sink)

\* No progress frame comes after a chunk frame or after the terminal frame.
C37_ProgressBeforeContent ==
    \A i, j \in 1..Len(frames) :
        (i < j /\ IsProgressFrame(frames[j])) =>
            (frames[i].type # "chunk" /\ ~IsTerminalFrame(frames[i]))

\* C37: in a research stream every item handed to the progress sink (real
\* progress or keep-alive) is emitted to the client exactly once, in the
\* order handed over, and before the first chunk frame and the terminal
\* frame; no progress frame ever follows a chunk frame.
C37_SinkEmittedBeforeContent ==
    /\ C37_HandedOnceInOrder
    /\ C37_ProgressBeforeContent
    /\ bpc \in {"returned", "raised"} => progress_queue = <<>>

\* C38: a keep-alive reaches the client while the wait is still silent: in
\* the poll iteration in which the bridge hands a keep-alive to the progress
\* sink the generator yields an event before the next poll, so at the next
\* poll the coordinator holds no keep-alive that it has not emitted.
C38_KeepAliveEmittedBeforeNextPoll ==
    bpc = "while" =>
        /\ progress_queue = <<>>
        /\ \A k \in 1..Len(sink) :
              sink[k] = Heartbeat =>
                  \E i \in 1..Len(frames) :
                      /\ IsProgressFrame(frames[i])
                      /\ frames[i].content = Heartbeat

\* C5: in the evidence list of one response no two items share a dedup key
\* (the url if present, the title otherwise).
C5_EvidenceKeysUnique ==
    evPc = "built" =>
        \A i, j \in 1..Len(used_evidence) :
            i # j => DedupKey(used_evidence[i]) # DedupKey(used_evidence[j])

\* C6: when a local-origin and a web-origin result of the same request have
\* the same dedup key, the response keeps the local item and drops the web
\* one, in the evidence list and in the sources payload.
C6_LocalKeptOverWeb ==
    evPc = "built" =>
        \A i, j \in 1..Len(used_evidence) :
            (/\ used_evidence[i].origin = "rag"
             /\ used_evidence[j].origin = "web"
             /\ DedupKey(used_evidence[i]) # "")
            => /\ DedupKey(used_evidence[i]) # DedupKey(used_evidence[j])
               /\ \A k \in 1..Len(sources.internet) :
                     DedupKey(sources.internet[k]) # DedupKey(used_evidence[i])

\* C8: synthesizing references is idempotent (feeding the output report back
\* in with the same url lists returns the same report, so no second
\* references block), and the entries appended are numbered 1..n over the
\* distinct non-empty urls in first-seen order: for a report without a
\* references section and urls [a, b, a] exactly [1] a then [2] b.
EntriesOf(content) == SelectSeq(content, LAMBDA t : t.k = "entry")
HeadingCount(content) == Len(SelectSeq(content, LAMBDA t : t.k = "h2ref"))

C8_ReferencesIdempotentDeduped ==
    /\ refPc = "twice" => refOut2 = refOut
    /\ refPc \in {"once", "twice"} =>
         /\ HeadingCount(refOut) <= 1
         /\ \A i, j \in 1..Len(EntriesOf(refOut)) :
               /\ EntriesOf(refOut)[i].n = i
               /\ (i # j => EntriesOf(refOut)[i].u # EntriesOf(refOut)[j].u)
         /\ (~HasReferences(refReport) /\ refUrls = <<"a", "b", "a">>) =>
               /\ EntriesOf(refOut) = <<Entry(1, "a"), Entry(2, "b")>>
               /\ refOut = rstrip(refReport) \o ReferencesHeading
                             \o <<Entry(1, "a"), Tok("nl"), Entry(2, "b")>>

C8_Witness ==
    /\ refPc = "twice"
    /\ refUrls = <<"a", "b", "a">>
    /\ ~HasReferences(refReport)
    /\ Len(EntriesOf(refOut2)) = 2

\* C9: tone normalisation is total over strings: every recognised alias, in
\* any letter case, maps to its one canonical enum name with no warning;
\* every other string maps to Informative with exactly one warning.
Canonical(base) == Str(base, {1})

C9_ToneTotal ==
    tonePc = "returned" =>
        IF tone.base \in ToneAliases
        THEN toneOut = Canonical(tone.base) /\ toneWarnings = 0
        ELSE toneOut = Informative /\ toneWarnings = 1

C9_Witness ==
    /\ tonePc = "returned"
    /\ tone = Str("analytical", {1, 2, 3})
    /\ toneOut = Str("analytical", {1})

====
